---- MODULE Spec2Model ----
(***************************************************************************)
(* Off-chain core of the Yao-millionaires cut-and-choose protocol          *)
(* (denysRiman/privacy-preserving-auctions): consensus hashing, comparator *)
(* layout, garbler, evaluator, IH chain, layout Merkle tree and the        *)
(* session commands of the garbler (Alice) and the evaluator (Bob).        *)
(*                                                                         *)
(* Representation of byte strings.  A byte string is a flat sequence of    *)
(* integers.  0..255 are literal bytes; a fixed-width value that is not    *)
(* spelled out byte by byte is a group <<marker, length, mix, content,     *)
(* Close>>.  Keccak-256 is modelled as a collision-free hash: the 32-byte  *)
(* digest of a preimage p is the group with marker HOpen and content p,    *)
(* so two digests are equal exactly when the concatenated preimages are    *)
(* equal.  The individual bytes of a digest (needed for the flip bit and   *)
(* for the label bit that the derivation overwrites) are a deterministic   *)
(* mix of the preimage (DigestByte).                                       *)
(* A 16-byte value is a record [byte0, atoms]: byte0 is its first byte    *)
(* and atoms is the set of truncated digests whose XOR makes up bytes      *)
(* 1..15, so that XOR of 16-byte buffers is the bitwise XOR of the first   *)
(* bytes and the symmetric difference of the atom sets.                    *)
(***************************************************************************)
EXTENDS Integers, Sequences, FiniteSets, TLC

\* ------------------------------------------------------------------------
\* Primitives (consensus.rs)
\* ------------------------------------------------------------------------

\* Start marker of a 32-byte Keccak digest group.
HOpen == 256
\* Start marker of a digest truncated to its first 16 bytes.
TOpen == 257
\* Start marker of a serialized 16-byte XOR value.
XOpen == 258
\* Start marker of a 32-byte big-endian word given by its significant bytes.
WOpen == 259
\* Start marker of 32 copies of one byte.
ROpen == 260
\* End marker of a group.
Close == 261

\* iter.collect::<Vec<_>>(): the list an iterator yields, built once.
Collect(list) == list \o <<>>

\* [b; n]: n copies of the byte b.
Fill(n, b) == [i \in 1..n |-> b]

RECURSIVE Concat(_)
Concat(parts) ==
  IF parts = <<>> THEN <<>> ELSE Head(parts) \o Concat(Tail(parts))

\* Modulus of the byte mix.
MixMod == 32749

\* Rolling mix of the byte string s from position i on, as <<mix, 31^n>>
\* for its n tokens.  A group <<marker, total length, mix of its content,
\* content..., Close>> counts as one token.
RECURSIVE ScanMix(_, _, _, _)
ScanMix(s, i, acc, pow) ==
  IF i > Len(s) \/ acc < 0 \/ pow < 0 THEN <<acc, pow>>
  ELSE IF s[i] >= HOpen
  THEN ScanMix(s, i + s[i + 1], (acc * 31 + s[i] + 7 * s[i + 2]) % MixMod,
               (pow * 31) % MixMod)
  ELSE ScanMix(s, i + 1, (acc * 31 + s[i] + 1) % MixMod, (pow * 31) % MixMod)

\* The group of a byte string: its marker, length and mix, then the bytes.
GroupOf(marker, content) ==
  <<marker, Len(content) + 4, ScanMix(content, 1, 0, 1)[1]>>
    \o content \o <<Close>>

\* The group that stands for a fixed-width value determined by the
\* concatenation of the parts.
Group(marker, parts) == GroupOf(marker, Concat(parts))

\* keccak256 over the straight concatenation of the parts.
keccak256(parts) == Group(HOpen, parts)

\* Byte k (0..31) of the digest h.
DigestByte(h, k) ==
  LET v == ((h[3] + 97 * k + 1) * (h[3] + 3)) % MixMod
  IN (((v * v) % MixMod) \div 32) % 256

\* [b; 32]: a 32-byte value made of 32 copies of the byte b.
Fill32(b) == Group(ROpen, <<<<b>>>>)

\* value.to_be_bytes() for a u16.
U16BE(v) == <<(v \div 256) % 256, v % 256>>

\* The big-endian bytes of value without leading zero bytes.
RECURSIVE BEBytes(_)
BEBytes(value) ==
  IF value = 0 THEN <<>> ELSE BEBytes(value \div 256) \o <<value % 256>>

\* Encodes a u64 into Solidity uint256 big-endian bytes: the value bytes in
\* the least-significant slot, zero bytes before them.
uint256_from_u64(value) == Group(WOpen, <<BEBytes(value)>>)

\* Lexicographic comparison of byte strings (a <= b on arrays).
RECURSIVE LexLeqFrom(_, _, _)
LexLeqFrom(a, b, i) ==
  IF i > Len(a) THEN TRUE
  ELSE IF i > Len(b) THEN FALSE
  ELSE IF a[i] < b[i] THEN TRUE
  ELSE IF a[i] > b[i] THEN FALSE
  ELSE LexLeqFrom(a, b, i + 1)

LexLeq(a, b) == a = b \/ LexLeqFrom(a, b, 1)

\* Bytes 1..15 of a digest.
TruncAtom(h) == [h EXCEPT ![1] = TOpen]

\* The first 16 bytes of a digest: its byte 0 and the rest as one atom.
Trunc16(h) == [byte0 |-> DigestByte(h, 0), atoms |-> {TruncAtom(h)}]

\* [0u8; 16]
Zero16 == [byte0 |-> 0, atoms |-> {}]

\* a ^ b on u8.
RECURSIVE ByteXor(_, _)
ByteXor(a, b) ==
  IF a = 0 THEN b
  ELSE IF b = 0 THEN a
  ELSE ((a + b) % 2) + 2 * ByteXor(a \div 2, b \div 2)

\* The atoms of a set in ascending byte order.
RECURSIVE SortedAtoms(_)
SortedAtoms(S) ==
  IF S = {} THEN <<>>
  ELSE LET m == CHOOSE x \in S : \A y \in S : LexLeq(x, y)
       IN <<m>> \o SortedAtoms(S \ {m})

\* The bytes of a 16-byte value inside a longer byte string.
Bytes16(v) == Group(XOpen, <<<<v.byte0>>>> \o SortedAtoms(v.atoms))

\* XOR helper for 16-byte labels/pads.
xor16(a, b) ==
  [byte0 |-> ByteXor(a.byte0, b.byte0),
   atoms |-> (a.atoms \ b.atoms) \cup (b.atoms \ a.atoms)]

\* Reads the permutation bit (LSB of first label byte).
get_permutation_bit(label) == label.byte0 % 2

\* ------------------------------------------------------------------------
\* Gate descriptors (types.rs)
\* ------------------------------------------------------------------------

And == 0
Xor == 1
Not == 2

GateDesc(gate_type, wire_a, wire_b, wire_c) ==
  [gate_type |-> gate_type, wire_a |-> wire_a, wire_b |-> wire_b,
   wire_c |-> wire_c]

CircuitLayout(circuit_id, instance_id, gates) ==
  [circuit_id |-> circuit_id, instance_id |-> instance_id, gates |-> gates]

\* ------------------------------------------------------------------------
\* Consensus hashing (consensus.rs)
\* ------------------------------------------------------------------------

\* keccak256("P", circuitId, instanceId, wireId, seed) & 1
derive_wire_flip_bit(circuit_id, instance_id, wire_id, seed) ==
  LET instance == uint256_from_u64(instance_id)
      h == keccak256(<<<<80>>, circuit_id, instance, U16BE(wire_id), seed>>)
  IN DigestByte(h, 31) % 2

\* The label derivation without the rewrite of the first-byte LSB.
derive_wire_label_unforced(circuit_id, instance_id, wire_id, semantic_bit, seed) ==
  LET instance == uint256_from_u64(instance_id)
      bit == <<semantic_bit % 2>>
      h == keccak256(<<<<76>>, circuit_id, instance, U16BE(wire_id), bit,
                       seed>>)
  IN Trunc16(h)

\* First 16 bytes of keccak256("L", ...) with the first-byte LSB rewritten
\* to flip XOR semantic.
derive_wire_label(circuit_id, instance_id, wire_id, semantic_bit, seed) ==
  LET instance == uint256_from_u64(instance_id)
      bit == <<semantic_bit % 2>>
      h == keccak256(<<<<76>>, circuit_id, instance, U16BE(wire_id), bit,
                       seed>>)
      flip == derive_wire_flip_bit(circuit_id, instance_id, wire_id, seed)
      permute == (flip + (semantic_bit % 2)) % 2
      label == Trunc16(h)
  IN [label EXCEPT !.byte0 = (@ \div 2) * 2 + permute]

\* keccak256("K", circuitId, instanceId, gateIndex, permA, permB, labelA,
\* labelB)
compute_row_key(circuit_id, instance_id, gate_index, perm_a, perm_b, label_a, label_b) ==
  LET instance == uint256_from_u64(instance_id)
      gate == uint256_from_u64(gate_index)
      pa == <<perm_a % 2>>
      pb == <<perm_b % 2>>
  IN keccak256(<<<<75>>, circuit_id, instance, gate, pa, pb,
                 Bytes16(label_a), Bytes16(label_b)>>)

\* First 16 bytes of keccak256("PAD", rowKey).
expand_pad(row_key) == Trunc16(keccak256(<<<<80, 65, 68>>, row_key>>))

\* gateType || wireA || wireB || wireC || row0 || row1 || row2 || row3:
\* the 7 header bytes and the four 16-byte row cells of the 71-byte leaf.
encode_leaf(gate, rows) ==
  [hdr |-> <<gate.gate_type>> \o U16BE(gate.wire_a) \o U16BE(gate.wire_b)
             \o U16BE(gate.wire_c),
   rows |-> rows]

\* The 71 bytes of a leaf as one byte string.
LeafBytes(leaf) ==
  leaf.hdr \o Bytes16(leaf.rows[1]) \o Bytes16(leaf.rows[2])
           \o Bytes16(leaf.rows[3]) \o Bytes16(leaf.rows[4])

\* keccak256(gateIndex, gateType, wireA, wireB, wireC)
layout_leaf_hash(gate_index, gate) ==
  LET gate_idx == uint256_from_u64(gate_index)
      t == <<gate.gate_type>>
  IN keccak256(<<gate_idx, t, U16BE(gate.wire_a), U16BE(gate.wire_b),
                 U16BE(gate.wire_c)>>)

\* Gate truth table used during row generation.
truth_table(gate_type, a, b) ==
  IF gate_type = And THEN (a * b) % 2
  ELSE IF gate_type = Xor THEN (a + b) % 2
  ELSE 0

\* ------------------------------------------------------------------------
\* Incremental hash chain (ih.rs)
\* ------------------------------------------------------------------------

\* [0u8; 32]
Zero32 == Fill32(0)

\* keccak256(abi.encodePacked(gateIndex, leafBytes))
gc_block_hash(gate_index, leaf) ==
  LET idx == uint256_from_u64(gate_index)
  IN keccak256(<<idx, LeafBytes(leaf)>>)

\* The transition with the block hash ahead of the previous state.
inc_hash_swapped(prev, block_hash) == keccak256(<<block_hash, prev>>)

\* IH_i = keccak256(abi.encodePacked(IH_{i-1}, blockHash_i))
inc_hash(prev, block_hash) == keccak256(<<prev, block_hash>>)

\* The state after folding block_hashes[from..to] into state (a state is
\* never empty; the test makes TLC evaluate it before the next step).
RECURSIVE IncFold(_, _, _, _)
IncFold(state, block_hashes, from, to) ==
  IF from > to \/ state = <<>> THEN state
  ELSE IncFold(inc_hash(state, block_hashes[from]), block_hashes, from + 1, to)

\* Terminal incremental state over ordered gate block hashes.
incremental_root_from_hashes(block_hashes) ==
  IncFold(Zero32, block_hashes, 1, Len(block_hashes))

\* Terminal state from raw gate leaves (gate index = position, from 0).
incremental_root(leaves) ==
  incremental_root_from_hashes(
    [k \in 1..Len(leaves) |-> gc_block_hash(k - 1, leaves[k])])

\* The IH proof without the special case of the one-block chain.
ih_proof_from_hashes_unconditional(block_hashes, index) ==
  <<IncFold(Zero32, block_hashes, 1, index)>>
    \o SubSeq(block_hashes, index + 2, Len(block_hashes))

\* The IH proof with the challenged block folded into the prefix state.
ih_proof_from_hashes_inclusive(block_hashes, index) ==
  IF Len(block_hashes) = 1 THEN <<>>
  ELSE LET prefix_state == IncFold(Zero32, block_hashes, 1, index + 1)
       IN <<prefix_state>>
          \o SubSeq(block_hashes, index + 2, Len(block_hashes))

\* IH proof for the block at 0-based index: [] for a one-block chain,
\* otherwise the prefix state followed by the suffix block hashes.
ih_proof_from_hashes(block_hashes, index) ==
  IF Len(block_hashes) = 1 THEN <<>>
  ELSE LET prefix_state == IncFold(Zero32, block_hashes, 1, index)
       IN <<prefix_state>>
          \o SubSeq(block_hashes, index + 2, Len(block_hashes))

\* The verifier starting from the zero state whatever the proof says.
verify_ih_proof_from_zero(block_hash, ih_proof, root) ==
  IncFold(inc_hash(Zero32, block_hash), ih_proof, 2, Len(ih_proof)) = root

\* Local verifier equivalent to Solidity _processIncrementalProof.
verify_ih_proof(block_hash, ih_proof, root) ==
  LET state0 == IF ih_proof = <<>> THEN inc_hash(Zero32, block_hash)
                ELSE inc_hash(ih_proof[1], block_hash)
  IN IncFold(state0, ih_proof, 2, Len(ih_proof)) = root

\* ------------------------------------------------------------------------
\* Layout Merkle tree (merkle.rs)
\* ------------------------------------------------------------------------

\* Sort the pair, then keccak256(left || right).
commutative_node_hash(a, b) ==
  IF LexLeq(a, b) THEN keccak256(<<a, b>>) ELSE keccak256(<<b, a>>)

\* One level up with the last node of an odd level carried up unhashed.
NextLevelPromoting(level) ==
  [j \in 1..((Len(level) + 1) \div 2) |->
     IF 2 * j <= Len(level)
     THEN commutative_node_hash(level[2 * j - 1], level[2 * j])
     ELSE level[2 * j - 1]]

\* One level up: pairs hashed left to right, the last node paired with
\* itself when the width is odd.
NextLevel(level) ==
  [j \in 1..((Len(level) + 1) \div 2) |->
     LET left == level[2 * j - 1]
         right == IF 2 * j <= Len(level) THEN level[2 * j] ELSE left
     IN commutative_node_hash(left, right)]

RECURSIVE RootOfLevel(_)
RootOfLevel(level) ==
  IF Len(level) > 1 THEN RootOfLevel(NextLevel(level)) ELSE level[1]

\* Merkle root from pre-hashed leaves.
merkle_root_from_hashes(hashes) ==
  IF hashes = <<>> THEN Zero32 ELSE RootOfLevel(hashes)

\* The sibling sequence from level upwards for the 0-based position idx.
RECURSIVE ProofFromLevel(_, _)
ProofFromLevel(level, idx) ==
  IF Len(level) > 1
  THEN LET sibling == IF idx % 2 = 0
                      THEN IF idx + 1 < Len(level) THEN level[idx + 2]
                           ELSE level[idx + 1]
                      ELSE level[idx]
       IN <<sibling>> \o ProofFromLevel(NextLevel(level), idx \div 2)
  ELSE <<>>

\* The sibling sequence that leaves out the self-paired last node.
RECURSIVE ProofFromLevelUnpaired(_, _)
ProofFromLevelUnpaired(level, idx) ==
  IF Len(level) > 1
  THEN LET sibling == IF idx % 2 = 0
                      THEN IF idx + 1 < Len(level) THEN <<level[idx + 2]>>
                           ELSE <<>>
                      ELSE <<level[idx]>>
       IN sibling \o ProofFromLevelUnpaired(NextLevel(level), idx \div 2)
  ELSE <<>>

merkle_proof_from_hashes_unpaired(hashes, index) ==
  ProofFromLevelUnpaired(hashes, index)

\* Merkle inclusion proof for hashes[index] (0-based index).
merkle_proof_from_hashes(hashes, index) == ProofFromLevel(hashes, index)

RECURSIVE ProofFold(_, _, _)
ProofFold(computed, proof, k) ==
  IF k > Len(proof) \/ computed = <<>> THEN computed
  ELSE ProofFold(commutative_node_hash(computed, proof[k]), proof, k + 1)

\* The verifier that accepts an empty proof without comparing.
verify_proof_empty_accepted(leaf, proof, root) ==
  proof = <<>> \/ ProofFold(leaf, proof, 1) = root

\* Local proof verifier equivalent to OpenZeppelin commutative verification.
verify_proof(leaf, proof, root) == ProofFold(leaf, proof, 1) = root

\* ------------------------------------------------------------------------
\* Comparator layout and session derivations (scenario.rs)
\* ------------------------------------------------------------------------

\* Number of circuit instances used in cut-and-choose.
CUT_AND_CHOOSE_N == 10

U16Max == 65535

\* Option<u16>::None for the accumulators.
NoWire == 0 - 1

\* Append one gate and allocate a fresh output wire (out).
push_gate(st, gate_type, a, b) ==
  [st EXCEPT !.gates = Append(@, GateDesc(gate_type, a, b, st.next_wire)),
             !.next_wire = IF @ >= U16Max THEN U16Max ELSE @ + 1,
             !.out = st.next_wire]

push_xor(st, a, b) == push_gate(st, Xor, a, b)

push_and(st, a, b) == push_gate(st, And, a, b)

\* The NOT gate wired to its own output instead of a.
push_not_own_output(st, a) == push_gate(st, Not, st.next_wire, 0)

push_not(st, a) == push_gate(st, Not, a, 0)

\* OR as (a XOR b) XOR (a AND b).
push_or(st, a, b) ==
  LET s1 == push_xor(st, a, b)
      s2 == push_and(s1, a, b)
  IN push_xor(s2, s1.out, s2.out)

\* The loop body with the bit comparison a AND b in place of a AND NOT b.
LayoutBitUnnegated(st, bit, bit_width) ==
  LET a == bit % (U16Max + 1)
      b == (bit + bit_width) % (U16Max + 1)
      s1 == push_xor(st, a, b)
      s2 == push_not(s1, s1.out)
      s3 == push_not(s2, b)
      s4 == push_and(s3, a, b)
  IN IF st.gt_acc = NoWire /\ st.eq_acc = NoWire
     THEN [s4 EXCEPT !.gt_acc = s4.out, !.eq_acc = s2.out]
     ELSE LET s5 == push_and(s4, st.eq_acc, s4.out)
              s6 == push_or(s5, st.gt_acc, s5.out)
              s7 == push_and(s6, st.eq_acc, s2.out)
          IN [s7 EXCEPT !.gt_acc = s6.out, !.eq_acc = s7.out]

\* The loop body of build_millionaires_layout for one bit position.
LayoutBit(st, bit, bit_width) ==
  LET a == bit % (U16Max + 1)
      b == (bit + bit_width) % (U16Max + 1)
      s1 == push_xor(st, a, b)
      s2 == push_not(s1, s1.out)
      s3 == push_not(s2, b)
      s4 == push_and(s3, a, s3.out)
  IN IF st.gt_acc = NoWire /\ st.eq_acc = NoWire
     THEN [s4 EXCEPT !.gt_acc = s4.out, !.eq_acc = s2.out]
     ELSE LET s5 == push_and(s4, st.eq_acc, s4.out)
              s6 == push_or(s5, st.gt_acc, s5.out)
              s7 == push_and(s6, st.eq_acc, s2.out)
          IN [s7 EXCEPT !.gt_acc = s6.out, !.eq_acc = s7.out]

\* for bit in (0..bit_width).rev()
RECURSIVE LayoutLoop(_, _, _)
LayoutLoop(st, bit, bit_width) ==
  IF bit < 0 \/ st.next_wire < 0 THEN st
  ELSE LayoutLoop(LayoutBit(st, bit, bit_width), bit - 1, bit_width)

\* Deterministic Millionaires-comparison layout for bit_width-bit inputs.
build_millionaires_layout(bit_width) ==
  LayoutLoop([gates |-> <<>>, next_wire |-> (bit_width * 2) % (U16Max + 1),
              gt_acc |-> NoWire, eq_acc |-> NoWire, out |-> NoWire],
             bit_width - 1, bit_width).gates

\* keccak256("SEED", circuitId, instanceId, masterSeed)
derive_instance_seed(master_seed, circuit_id, instance_id) ==
  LET instance == uint256_from_u64(instance_id)
  IN keccak256(<<<<83, 69, 69, 68>>, circuit_id, instance, master_seed>>)

\* comSeed = keccak256(abi.encodePacked(seed))
com_seed(seed) == keccak256(<<seed>>)

\* ------------------------------------------------------------------------
\* Garbler (garble.rs)
\* ------------------------------------------------------------------------

\* The ciphertext row stored at rowIndex = 2*permA + permB.
GarbledRow(seed, circuit_id, instance_id, gate_index, gate, perm_a, perm_b) ==
  LET flip_a == derive_wire_flip_bit(circuit_id, instance_id, gate.wire_a, seed)
      flip_b == derive_wire_flip_bit(circuit_id, instance_id, gate.wire_b, seed)
      Row(bit_a, bit_b) ==
        LET out_bit == truth_table(gate.gate_type, bit_a, bit_b)
            label_a == derive_wire_label(circuit_id, instance_id, gate.wire_a,
                                         bit_a, seed)
            label_b == derive_wire_label(circuit_id, instance_id, gate.wire_b,
                                         bit_b, seed)
            out_label == derive_wire_label(circuit_id, instance_id,
                                           gate.wire_c, out_bit, seed)
            row_key == compute_row_key(circuit_id, instance_id, gate_index,
                                       perm_a, perm_b, label_a, label_b)
            pad == expand_pad(row_key)
        IN xor16(out_label, pad)
  IN Row((perm_a + flip_a) % 2, (perm_b + flip_b) % 2)

\* The gate leaf with each row stored at index permA + 2*permB.
recompute_gate_leaf_transposed(seed, circuit_id, instance_id, gate_index, gate) ==
  LET rows == IF gate.gate_type # Not
              THEN [row_index \in 1..4 |->
                      GarbledRow(seed, circuit_id, instance_id, gate_index,
                                 gate, (row_index - 1) % 2,
                                 (row_index - 1) \div 2)]
              ELSE [row_index \in 1..4 |-> Zero16]
  IN encode_leaf(gate, rows)

\* The gate leaf with the rows of a NOT gate garbled like any other gate's.
recompute_gate_leaf_not_garbled(seed, circuit_id, instance_id, gate_index, gate) ==
  encode_leaf(gate,
    [row_index \in 1..4 |->
       GarbledRow(seed, circuit_id, instance_id, gate_index, gate,
                  (row_index - 1) \div 2, (row_index - 1) % 2)])

\* One 71-byte gate leaf from (seed, instance, gateIndex, gateDesc).
recompute_gate_leaf(seed, circuit_id, instance_id, gate_index, gate) ==
  LET rows == IF gate.gate_type # Not
              THEN [row_index \in 1..4 |->
                      GarbledRow(seed, circuit_id, instance_id, gate_index,
                                 gate, (row_index - 1) \div 2,
                                 (row_index - 1) % 2)]
              ELSE [row_index \in 1..4 |-> Zero16]
  IN encode_leaf(gate, rows)

\* The garbling that stops one gate short of the end of the layout.
garble_circuit_truncated(seed, layout) ==
  [k \in 1..(Len(layout.gates) - 1) |->
     recompute_gate_leaf(seed, layout.circuit_id, layout.instance_id, k - 1,
                         layout.gates[k])]

\* Garbles a full circuit in gate-index order.
garble_circuit(seed, layout) ==
  [k \in 1..Len(layout.gates) |->
     recompute_gate_leaf(seed, layout.circuit_id, layout.instance_id, k - 1,
                         layout.gates[k])]

\* ------------------------------------------------------------------------
\* Evaluator (evaluation.rs)
\* ------------------------------------------------------------------------

\* Option<[u8; 16]>: None is {}, Some(l) is {l}.
None16 == {}

Some16(label) == {label}

Unwrap16(opt) == CHOOSE l \in opt : TRUE

NotGateHint(gate_index, in_label0, out_if_in0, in_label1, out_if_in1) ==
  [gate_index |-> gate_index, in_label0 |-> in_label0,
   out_if_in0 |-> out_if_in0, in_label1 |-> in_label1,
   out_if_in1 |-> out_if_in1]

\* Result<[u8; 16], String>
OkLabel(label) == [ok |-> TRUE, label |-> label, err |-> ""]

ErrLabel(msg) == [ok |-> FALSE, label |-> Zero16, err |-> msg]

\* 16-byte wire label to bytes32: label then 16 zero bytes.
label16_to_bytes32(label) == Bytes16(label) \o Fill(16, 0)

RECURSIVE Pow2(_)
Pow2(n) == IF n = 0 THEN 1 ELSE 2 * Pow2(n - 1)

\* Little-endian bit decomposition: bit 0 is LSB and maps to wire 0.
u64_to_bits_le(value, bit_width) ==
  [k \in 1..bit_width |-> (value \div Pow2(k - 1)) % 2]

\* The x > y output wire of build_millionaires_layout(bit_width).
millionaires_gt_output_wire(gates, bit_width) ==
  IF gates = <<>> THEN [ok |-> FALSE, wire |-> 0]
  ELSE IF bit_width = 1 THEN [ok |-> TRUE, wire |-> gates[Len(gates)].wire_c]
  ELSE IF Len(gates) < 2 THEN [ok |-> FALSE, wire |-> 0]
  ELSE [ok |-> TRUE, wire |-> gates[Len(gates) - 1].wire_c]

\* Both labels of each of Bob's input wires (bit_width .. 2*bit_width-1).
derive_bob_label_offers(seed, circuit_id, instance_id, bit_width) ==
  [k \in 1..bit_width |->
     LET wire == (bit_width + (k - 1)) % (U16Max + 1)
     IN <<derive_wire_label(circuit_id, instance_id, wire, 0, seed),
          derive_wire_label(circuit_id, instance_id, wire, 1, seed)>>]

\* Labels of Alice's input wires (0 .. bit_width-1) for the value x.
derive_alice_input_labels(seed, circuit_id, instance_id, bit_width, x_value) ==
  LET bits == u64_to_bits_le(x_value, bit_width)
  IN [k \in 1..bit_width |->
        derive_wire_label(circuit_id, instance_id, (k - 1) % (U16Max + 1),
                          bits[k], seed)]

\* Output labels (semantic 0, semantic 1) of one layout instance.
derive_output_labels(seed, layout, output_wire) ==
  <<derive_wire_label(layout.circuit_id, layout.instance_id, output_wire, 0, seed),
    derive_wire_label(layout.circuit_id, layout.instance_id, output_wire, 1, seed)>>

\* The positions (from 1) of the NOT gates of a layout, ascending.
NotGatePositions(gates) == {k \in 1..Len(gates) : gates[k].gate_type = Not}

RECURSIVE SetToSortedSeq(_)
SetToSortedSeq(S) ==
  IF S = {} THEN <<>>
  ELSE LET m == CHOOSE x \in S : \A y \in S : x <= y
       IN <<m>> \o SetToSortedSeq(S \ {m})

\* Per-NOT-gate hints, in gate order.
derive_not_gate_hints(seed, layout) ==
  LET pos == SetToSortedSeq(NotGatePositions(layout.gates))
  IN [j \in 1..Len(pos) |->
        LET gate == layout.gates[pos[j]]
        IN NotGateHint(pos[j] - 1,
             derive_wire_label(layout.circuit_id, layout.instance_id, gate.wire_a, 0, seed),
             derive_wire_label(layout.circuit_id, layout.instance_id, gate.wire_c, 1, seed),
             derive_wire_label(layout.circuit_id, layout.instance_id, gate.wire_a, 1, seed),
             derive_wire_label(layout.circuit_id, layout.instance_id, gate.wire_c, 0, seed))]

\* The 16-byte cell of the leaf at byte offset 7 + 16 * row_index.
row_ct_from_leaf(leaf, row_index) ==
  LET start == 7 + 16 * row_index
  IN leaf.rows[((start - 7) \div 16) + 1]

Max(a, b) == IF a >= b THEN a ELSE b

RECURSIVE MaxWireFrom(_, _, _)
MaxWireFrom(gates, k, acc) ==
  IF k > Len(gates) THEN acc
  ELSE MaxWireFrom(gates, k + 1,
         Max(Max(Max(acc, gates[k].wire_a), gates[k].wire_b), gates[k].wire_c))

\* The count check that lets a leaf list shorter than the gate list pass.
LeafCountAtMost(leaves, gates) == Len(leaves) <= Len(gates)

\* leaves.len() == gates.len(): one leaf for every gate of the layout.
LeafCountMatches(leaves, gates) == Len(leaves) = Len(gates)

\* The lookup that takes the first hint whatever its gate index.
FindHintFirst(not_hints, gate_idx) ==
  IF not_hints = <<>> THEN {} ELSE {not_hints[1]}

\* The first hint whose gate_index equals gate_idx, as a set (empty: none).
FindHint(not_hints, gate_idx) ==
  LET hits == {j \in 1..Len(not_hints) : not_hints[j].gate_index = gate_idx}
  IN IF hits = {} THEN {}
     ELSE {not_hints[CHOOSE j \in hits : \A i \in hits : j <= i]}

\* One gate of the evaluation loop: the output label or an error.
EvalGate(layout, leaves, not_hints, wire_labels, gate_idx) ==
  LET gate == layout.gates[gate_idx + 1]
      opt_a == wire_labels[gate.wire_a]
  IN IF opt_a = None16 THEN ErrLabel("missing wire label for wireA")
     ELSE LET label_a == Unwrap16(opt_a)
          IN IF gate.gate_type \in {And, Xor}
             THEN LET opt_b == wire_labels[gate.wire_b]
                  IN IF opt_b = None16
                     THEN ErrLabel("missing wire label for wireB")
                     ELSE LET label_b == Unwrap16(opt_b)
                              perm_a == label_a.byte0 % 2
                              perm_b == label_b.byte0 % 2
                              row_index == 2 * perm_a + perm_b
                              ct == row_ct_from_leaf(leaves[gate_idx + 1], row_index)
                              row_key == compute_row_key(layout.circuit_id,
                                           layout.instance_id, gate_idx,
                                           perm_a, perm_b, label_a, label_b)
                              pad == expand_pad(row_key)
                          IN OkLabel(xor16(ct, pad))
             ELSE LET found == FindHint(not_hints, gate_idx)
                  IN IF found = {} THEN ErrLabel("missing NOT hint")
                     ELSE LET hint == CHOOSE h \in found : TRUE
                          IN IF label_a = hint.in_label0
                             THEN OkLabel(hint.out_if_in0)
                             ELSE IF label_a = hint.in_label1
                             THEN OkLabel(hint.out_if_in1)
                             ELSE ErrLabel("NOT hint mismatch")

\* for (gate_idx, gate) in gates.iter().enumerate()
RECURSIVE EvalLoop(_, _, _, _, _)
EvalLoop(layout, leaves, not_hints, wire_labels, gate_idx) ==
  IF gate_idx >= Len(layout.gates)
  THEN [ok |-> TRUE, wire_labels |-> wire_labels, err |-> ""]
  ELSE LET Store(r) ==
             IF ~r.ok
             THEN [ok |-> FALSE, wire_labels |-> wire_labels, err |-> r.err]
             ELSE EvalLoop(layout, leaves, not_hints,
                    [wire_labels EXCEPT ![layout.gates[gate_idx + 1].wire_c] =
                       Some16(r.label)],
                    gate_idx + 1)
       IN Store(EvalGate(layout, leaves, not_hints, wire_labels, gate_idx))

\* Evaluates one garbled circuit instance.
evaluate_garbled_circuit(layout, leaves, alice_input_labels, bob_input_labels, not_hints, output_wire) ==
  LET gates == layout.gates
      bit_width == Len(alice_input_labels)
  IN IF ~LeafCountMatches(leaves, gates)
     THEN ErrLabel("leaves count does not match gate count")
     ELSE IF Len(bob_input_labels) # bit_width
     THEN ErrLabel("bob input label count does not match alice count")
     ELSE
       LET max_wire == MaxWireFrom(gates, 1,
                         (IF 2 * bit_width = 0 THEN 0 ELSE 2 * bit_width - 1)
                           % (U16Max + 1))
           wire_labels0 ==
             [wid \in 0..max_wire |->
                IF wid < bit_width THEN Some16(alice_input_labels[wid + 1])
                ELSE IF wid < 2 * bit_width
                THEN Some16(bob_input_labels[wid - bit_width + 1])
                ELSE None16]
           Output(r) ==
             IF ~r.ok THEN ErrLabel(r.err)
             ELSE IF output_wire >= max_wire + 1
             THEN ErrLabel("output wire is out of range")
             ELSE IF r.wire_labels[output_wire] = None16
             THEN ErrLabel("missing output wire label")
             ELSE OkLabel(Unwrap16(r.wire_labels[output_wire]))
       IN Output(EvalLoop(layout, leaves, not_hints, wire_labels0, 0))

\* ------------------------------------------------------------------------
\* Garbler commands (off-chain-alice/src/main.rs)
\* ------------------------------------------------------------------------

SessionConfig(bit_width, circuit_id, master_seed) ==
  [bit_width |-> bit_width, circuit_id |-> circuit_id,
   master_seed |-> master_seed]

InstanceArtifacts(instance_id, seed, com, root_gc, leaves) ==
  [instance_id |-> instance_id, seed |-> seed, com_seed |-> com,
   root_gc |-> root_gc, leaves |-> leaves]

\* The artifacts with the seed derived for the following instance id.
BuildInstanceNextSeed(cfg, gates, instance_id) ==
  LET seed == derive_instance_seed(cfg.master_seed, cfg.circuit_id,
                                   instance_id + 1)
      layout == CircuitLayout(cfg.circuit_id, instance_id, gates)
      leaves == garble_circuit(seed, layout)
      block_hashes == [k \in 1..Len(leaves) |-> gc_block_hash(k - 1, leaves[k])]
      root_gc == incremental_root_from_hashes(block_hashes)
  IN InstanceArtifacts(instance_id, seed, com_seed(seed), root_gc, leaves)

\* One element of build_instances: the artifacts of instance instance_id.
BuildInstance(cfg, gates, instance_id) ==
  LET seed == derive_instance_seed(cfg.master_seed, cfg.circuit_id, instance_id)
      layout == CircuitLayout(cfg.circuit_id, instance_id, gates)
      leaves == garble_circuit(seed, layout)
      block_hashes == [k \in 1..Len(leaves) |-> gc_block_hash(k - 1, leaves[k])]
      root_gc == incremental_root_from_hashes(block_hashes)
  IN InstanceArtifacts(instance_id, seed, com_seed(seed), root_gc, leaves)

\* The artifacts of instances 0..N-1, in order (position k holds k-1).
build_instances(cfg) ==
  LET gates == build_millionaires_layout(cfg.bit_width)
  IN [k \in 1..CUT_AND_CHOOSE_N |-> BuildInstance(cfg, gates, k - 1)]

\* for inst in instances: skip instance m, push the others in order.
RECURSIVE OpenedFrom(_, _, _, _)
OpenedFrom(instances, m, k, acc) ==
  IF k > Len(instances) \/ Len(acc.indices) > Len(instances) THEN acc
  ELSE IF instances[k].instance_id = m
  THEN OpenedFrom(instances, m, k + 1, acc)
  ELSE OpenedFrom(instances, m, k + 1,
         [indices |-> Append(acc.indices, instances[k].instance_id),
          seeds |-> Append(acc.seeds, instances[k].seed)])

\* The opened lists without the skip of instance m.
opened_indices_and_seeds_unskipped(instances, m) ==
  IF Len(instances) # CUT_AND_CHOOSE_N
  THEN [ok |-> FALSE, indices |-> <<>>, seeds |-> <<>>]
  ELSE IF m >= CUT_AND_CHOOSE_N
  THEN [ok |-> FALSE, indices |-> <<>>, seeds |-> <<>>]
  ELSE LET r == OpenedFrom(instances, CUT_AND_CHOOSE_N, 1,
                           [indices |-> <<>>, seeds |-> <<>>])
       IN [ok |-> TRUE, indices |-> r.indices, seeds |-> r.seeds]

\* Result<(Vec<usize>, Vec<[u8; 32]>)>
opened_indices_and_seeds(instances, m) ==
  IF Len(instances) # CUT_AND_CHOOSE_N
  THEN [ok |-> FALSE, indices |-> <<>>, seeds |-> <<>>]
  ELSE IF m >= CUT_AND_CHOOSE_N
  THEN [ok |-> FALSE, indices |-> <<>>, seeds |-> <<>>]
  ELSE LET r == OpenedFrom(instances, m, 1, [indices |-> <<>>, seeds |-> <<>>])
       IN [ok |-> TRUE, indices |-> r.indices, seeds |-> r.seeds]

\* value < 2^bit_width (always true from 64 bits on).
ensure_value_fits_bits(value, bit_width) ==
  IF bit_width >= 64 THEN TRUE ELSE value < Pow2(bit_width)

\* keccak256 of the 16 label bytes without the padding.
hash_output_label_unpadded(label16) == keccak256(<<Bytes16(label16)>>)

\* keccak256 of the label right-padded to 32 bytes.
hash_output_label(label16) == keccak256(<<label16_to_bytes32(label16)>>)

\* (h0 list, h1 list) over instances 0..N-1: h0 holds the hash of the
\* semantic-1 (true) output label, h1 the hash of the semantic-0 label.
derive_anchor_lists(cfg) ==
  LET gates == build_millionaires_layout(cfg.bit_width)
      out_wire == millionaires_gt_output_wire(gates, cfg.bit_width).wire
      seedOf(i) == derive_instance_seed(cfg.master_seed, cfg.circuit_id, i)
      l_true(i) == derive_wire_label(cfg.circuit_id, i, out_wire, 1, seedOf(i))
      l_false(i) == derive_wire_label(cfg.circuit_id, i, out_wire, 0, seedOf(i))
  IN [h0 |-> [k \in 1..CUT_AND_CHOOSE_N |-> hash_output_label(l_true(k - 1))],
      h1 |-> [k \in 1..CUT_AND_CHOOSE_N |-> hash_output_label(l_false(k - 1))]]

\* The evaluator bundle written by prepare-eval for instance m and value x.
PrepareEvalBundle(cfg, m, x_value) ==
  LET Bundle(inst, gates) ==
        LET layout == CircuitLayout(cfg.circuit_id, m, gates)
            out_wire == millionaires_gt_output_wire(gates, cfg.bit_width).wire
            out_labels == derive_output_labels(inst.seed, layout, out_wire)
            l_true_32 == label16_to_bytes32(out_labels[2])
            l_false_32 == label16_to_bytes32(out_labels[1])
            h0 == keccak256(<<l_true_32>>)
            h1 == keccak256(<<l_false_32>>)
        IN [present |-> TRUE,
            meta |-> [bit_width |-> cfg.bit_width,
                      circuit_id |-> cfg.circuit_id, instance_id |-> m,
                      output_wire |-> out_wire, h0 |-> h0, h1 |-> h1,
                      lout_true |-> l_true_32, lout_false |-> l_false_32],
            leaves |-> inst.leaves,
            alice_labels16 |-> derive_alice_input_labels(inst.seed,
                                 cfg.circuit_id, m, cfg.bit_width, x_value),
            y_offers |-> derive_bob_label_offers(inst.seed, cfg.circuit_id, m,
                           cfg.bit_width),
            not_hints |-> derive_not_gate_hints(inst.seed, layout)]
  IN Bundle(build_instances(cfg)[m + 1],
            build_millionaires_layout(cfg.bit_width))

\* ------------------------------------------------------------------------
\* Evaluator commands (off-chain-bob/src/main.rs)
\* ------------------------------------------------------------------------

\* The report of evaluate-m on a bundle for the value y.
EvaluateBundle(b, y_value) ==
  LET meta == b.meta
      y_bits == u64_to_bits_le(y_value, meta.bit_width)
      bob_labels == [k \in 1..meta.bit_width |->
                       IF y_bits[k] = 0 THEN b.y_offers[k][1]
                       ELSE b.y_offers[k][2]]
      gates == build_millionaires_layout(meta.bit_width)
      layout == CircuitLayout(meta.circuit_id, meta.instance_id, gates)
      Report(r) ==
        LET evaluated_label32 == label16_to_bytes32(r.label)
        IN IF ~r.ok
           THEN [present |-> TRUE, ok |-> FALSE, output_label16 |-> Zero16,
                 matches_h0 |-> FALSE, matches_h1 |-> FALSE,
                 decoded_bit |-> 0 - 1]
           ELSE [present |-> TRUE, ok |-> TRUE, output_label16 |-> r.label,
                 matches_h0 |-> keccak256(<<evaluated_label32>>) = meta.h0,
                 matches_h1 |-> keccak256(<<evaluated_label32>>) = meta.h1,
                 decoded_bit |->
                   IF evaluated_label32 = meta.lout_true THEN 1
                   ELSE IF evaluated_label32 = meta.lout_false THEN 0
                   ELSE 0 - 1]
  IN Report(evaluate_garbled_circuit(layout, b.leaves, b.alice_labels16,
                                     bob_labels, b.not_hints,
                                     meta.output_wire))

\* ------------------------------------------------------------------------
\* Bounds and input sets
\* ------------------------------------------------------------------------

\* Largest bit width of a session.
MaxBitWidth == 2

\* Number of distinct opaque 32-byte values offered as block or leaf hashes.
NumAtoms == 2

\* Longest block-hash chain.
MaxChain == 3

\* Largest number of Merkle leaves.
MaxLeaves == 4

\* Number of master seeds offered to the cut-and-choose commands.
NumSeeds == 2

\* Largest wire id of a single garbled gate.
MaxGateWire == 2

\* Largest gate index and instance id of a single garbled gate.
MaxGateIndex == 1

\* The circuit id and master seed of the parity fixtures: [0x11; 32],
\* [0x22; 32].
FixtureCircuitId == Fill32(17)

FixtureSeed == Fill32(34)

Configs ==
  {SessionConfig(w, FixtureCircuitId, FixtureSeed) : w \in 1..MaxBitWidth}

\* The configurations of the cut-and-choose commands: one-bit sessions
\* under NumSeeds master seeds, the fixture seed among them.
OpenConfigs ==
  {SessionConfig(1, FixtureCircuitId, Fill32(33 + s)) : s \in 1..NumSeeds}

HashAtoms == {Fill32(b) : b \in 1..NumAtoms}

\* All sequences over S of length 1..n.
RECURSIVE SeqsUpTo(_, _)
SeqsUpTo(S, n) ==
  IF n = 0 THEN {}
  ELSE SeqsUpTo(S, n - 1) \cup [1..n -> S]

\* ------------------------------------------------------------------------
\* Keccak-256 on bytes (sha3::Keccak256 behind consensus.rs keccak256)
\* ------------------------------------------------------------------------
\* The 1600-bit sponge state is a sequence of bits: bit z of lane (x, y) is
\* at Lane(x, y, z), so that the state read as a bit string is the absorbed
\* byte string with each byte least-significant bit first.

\* Rotation offsets of rho, by lane index 5*y + x.
RhoOffsets ==
  <<0, 1, 62, 28, 27, 36, 44, 6, 55, 20, 3, 10, 43, 25, 39,
    41, 45, 15, 21, 8, 18, 2, 61, 56, 14>>

\* The set bits of the 24 round constants of iota.
IotaBits ==
  <<{0}, {1, 7, 15}, {1, 3, 7, 15, 63}, {15, 31, 63}, {0, 1, 3, 7, 15},
    {0, 31}, {0, 7, 15, 31, 63}, {0, 3, 15, 63}, {1, 3, 7}, {3, 7},
    {0, 3, 15, 31}, {1, 3, 31}, {0, 1, 3, 7, 15, 31}, {0, 1, 3, 7, 63},
    {0, 3, 7, 15, 63}, {0, 1, 15, 63}, {1, 15, 63}, {7, 63}, {1, 3, 15},
    {1, 3, 31, 63}, {0, 7, 15, 31, 63}, {7, 15, 63}, {0, 31},
    {3, 15, 31, 63}>>

\* Position of bit z of lane (x, y) in the state.
Lane(x, y, z) == 64 * (5 * y + x) + z + 1

\* theta, column parities: C[x] = A[x,0] ^ ... ^ A[x,4].
KeccakC(A) ==
  Collect([i \in 1..320 |->
    (A[i] + A[i + 320] + A[i + 640] + A[i + 960] + A[i + 1280]) % 2])

\* theta: D[x] = C[x-1] ^ rotl(C[x+1], 1).
KeccakD(C) ==
  Collect([i \in 1..320 |->
    (C[64 * ((((i - 1) \div 64) + 4) % 5) + ((i - 1) % 64) + 1]
       + C[64 * ((((i - 1) \div 64) + 1) % 5) + ((i + 62) % 64) + 1]) % 2])

\* theta: A[x,y] ^= D[x].
KeccakTheta(A, D) ==
  Collect([i \in 1..1600 |-> (A[i] + D[((i - 1) % 320) + 1]) % 2])

\* The bit of A that rho and pi move to position i:
\* B[y, 2x+3y] = rotl(A[x,y], RhoOffsets[x,y]).
RhoPiSource(i) ==
  LET y == ((i - 1) \div 64) % 5
      x == (y + 3 * ((i - 1) \div 320)) % 5
  IN Lane(x, y, (((i - 1) % 64) + 64 - RhoOffsets[5 * y + x + 1]) % 64)

KeccakRhoPi(A) == Collect([i \in 1..1600 |-> A[RhoPiSource(i)]])

\* chi: A[x,y] = B[x,y] ^ (~B[x+1,y] & B[x+2,y]); iota: A[0,0] ^= RC[round].
KeccakChiIota(B, round) ==
  Collect([i \in 1..1600 |->
    (B[i]
       + (1 - B[Lane((((i - 1) \div 64) + 1) % 5, (i - 1) \div 320,
                     (i - 1) % 64)])
         * B[Lane((((i - 1) \div 64) + 2) % 5, (i - 1) \div 320,
                  (i - 1) % 64)]
       + (IF i <= 64 /\ (i - 1) \in IotaBits[round + 1] THEN 1 ELSE 0)) % 2])

\* One round of Keccak-f[1600]; round counts from 0.
KeccakRound(A, round) ==
  KeccakChiIota(KeccakRhoPi(KeccakTheta(A, KeccakD(KeccakC(A)))), round)

\* Bytes of one rate block (1088 bits).
KeccakRateBytes == 136

\* Bit k (0 = least significant) of a byte.
RECURSIVE BitOf(_, _)
BitOf(byte, k) == IF k = 0 THEN byte % 2 ELSE BitOf(byte \div 2, k - 1)

\* The single padded block of a message shorter than the rate: the message,
\* the Keccak domain byte 0x01, zero bytes, and 0x80 on the last byte.
KeccakPad(bytes) ==
  [k \in 1..KeccakRateBytes |->
    (IF k <= Len(bytes) THEN bytes[k]
     ELSE IF k = Len(bytes) + 1 THEN 1 ELSE 0)
    + (IF k = KeccakRateBytes THEN 128 ELSE 0)]

\* The zero state with one padded block XORed into its first 1088 bits.
KeccakAbsorb(block) ==
  Collect([i \in 1..1600 |->
    IF i <= 8 * KeccakRateBytes
    THEN BitOf(block[((i - 1) \div 8) + 1], (i - 1) % 8)
    ELSE 0])

\* The first 32 bytes of the state.
KeccakSqueeze(A) ==
  Collect([k \in 1..32 |->
    A[8 * k - 7] + 2 * A[8 * k - 6] + 4 * A[8 * k - 5] + 8 * A[8 * k - 4]
      + 16 * A[8 * k - 3] + 32 * A[8 * k - 2] + 64 * A[8 * k - 1]
      + 128 * A[8 * k]])

\* ------------------------------------------------------------------------
\* Consensus hashing on bytes (consensus.rs, garble.rs, ih.rs), with the
\* digests taken from a table K of the digests computed so far
\* ------------------------------------------------------------------------
\* Every function returns Known(value), or Needs(preimage) for the first
\* keccak256 call whose digest is not yet in the table.

Known(v) == [ok |-> TRUE, val |-> v, need |-> <<>>]

Needs(preimage) == [ok |-> FALSE, val |-> <<>>, need |-> preimage]

\* let v = r; F(v): the rest of a function once r is available.
Then(r, F(_)) == IF r.ok THEN F(r.val) ELSE r

\* The digest of a preimage from the table.
Digest(K, preimage) ==
  IF preimage \in DOMAIN K THEN Known(K[preimage]) ELSE Needs(preimage)

\* keccak256 over the straight concatenation of the parts.
keccak256_bytes(K, parts) == Digest(K, Concat(parts))

\* out[24..] = value.to_be_bytes(): 32 bytes, big-endian.
uint256_from_u64_bytes(value) ==
  Fill(32 - Len(BEBytes(value)), 0) \o BEBytes(value)

\* keccak256("P", circuitId, instanceId, wireId, seed)[31] & 1
derive_wire_flip_bit_bytes(K, circuit_id, instance_id, wire_id, seed) ==
  Then(keccak256_bytes(K, <<<<80>>, circuit_id,
                            uint256_from_u64_bytes(instance_id),
                            U16BE(wire_id), seed>>),
       LAMBDA h : Known(h[32] % 2))

\* h[..16] of keccak256("L", ...), label[0] = (label[0] & 0xFE) | permute.
derive_wire_label_bytes(K, circuit_id, instance_id, wire_id, semantic_bit, seed) ==
  Then(keccak256_bytes(K, <<<<76>>, circuit_id,
                            uint256_from_u64_bytes(instance_id),
                            U16BE(wire_id), <<semantic_bit % 2>>, seed>>),
       LAMBDA h :
         Then(derive_wire_flip_bit_bytes(K, circuit_id, instance_id, wire_id,
                                         seed),
              LAMBDA flip :
                Known(<<(h[1] \div 2) * 2 + ((flip + semantic_bit) % 2)>>
                        \o SubSeq(h, 2, 16))))

\* The row key with permB serialized ahead of permA.
compute_row_key_bytes_perm_swapped(K, circuit_id, instance_id, gate_index, perm_a, perm_b, label_a, label_b) ==
  keccak256_bytes(K, <<<<75>>, circuit_id,
                       uint256_from_u64_bytes(instance_id),
                       uint256_from_u64_bytes(gate_index),
                       <<perm_b % 2>>, <<perm_a % 2>>, label_a, label_b>>)

\* keccak256("K", circuitId, instanceId, gateIndex, permA, permB, labelA,
\* labelB)
compute_row_key_bytes(K, circuit_id, instance_id, gate_index, perm_a, perm_b, label_a, label_b) ==
  keccak256_bytes(K, <<<<75>>, circuit_id,
                       uint256_from_u64_bytes(instance_id),
                       uint256_from_u64_bytes(gate_index),
                       <<perm_a % 2>>, <<perm_b % 2>>, label_a, label_b>>)

\* h[..16] of keccak256("PAD", rowKey)
expand_pad_bytes(K, row_key) ==
  Then(keccak256_bytes(K, <<<<80, 65, 68>>, row_key>>),
       LAMBDA h : Known(SubSeq(h, 1, 16)))

\* out[i] = a[i] ^ b[i]
xor16_bytes(a, b) == [k \in 1..16 |-> ByteXor(a[k], b[k])]

\* gateType || wireA || wireB || wireC || row0 || row1 || row2 || row3
encode_leaf_bytes(gate, rows) ==
  <<gate.gate_type>> \o U16BE(gate.wire_a) \o U16BE(gate.wire_b)
    \o U16BE(gate.wire_c) \o rows[1] \o rows[2] \o rows[3] \o rows[4]

\* The body of the row loop of recompute_gate_leaf for (perm_a, perm_b):
\* ct = outLabel XOR pad(rowKey(...)).
GarbledRowBytes(K, seed, circuit_id, instance_id, gate_index, gate, perm_a, perm_b, flip_a, flip_b) ==
  LET bit_a == (perm_a + flip_a) % 2
      bit_b == (perm_b + flip_b) % 2
      out_bit == truth_table(gate.gate_type, bit_a, bit_b)
  IN Then(derive_wire_label_bytes(K, circuit_id, instance_id, gate.wire_a,
                                  bit_a, seed),
     LAMBDA label_a :
     Then(derive_wire_label_bytes(K, circuit_id, instance_id, gate.wire_b,
                                  bit_b, seed),
     LAMBDA label_b :
     Then(derive_wire_label_bytes(K, circuit_id, instance_id, gate.wire_c,
                                  out_bit, seed),
     LAMBDA out_label :
     Then(compute_row_key_bytes(K, circuit_id, instance_id, gate_index,
                                perm_a, perm_b, label_a, label_b),
     LAMBDA row_key :
     Then(expand_pad_bytes(K, row_key),
     LAMBDA pad : Known(Collect(xor16_bytes(out_label, pad))))))))

\* Recomputes one 71-byte gate leaf; the rows of a NOT gate stay zero.
recompute_gate_leaf_bytes(K, seed, circuit_id, instance_id, gate_index, gate) ==
  IF gate.gate_type = Not
  THEN Known(encode_leaf_bytes(gate, [r \in 1..4 |-> Fill(16, 0)]))
  ELSE
    Then(derive_wire_flip_bit_bytes(K, circuit_id, instance_id, gate.wire_a,
                                    seed),
    LAMBDA flip_a :
    Then(derive_wire_flip_bit_bytes(K, circuit_id, instance_id, gate.wire_b,
                                    seed),
    LAMBDA flip_b :
    Then(GarbledRowBytes(K, seed, circuit_id, instance_id, gate_index, gate,
                         0, 0, flip_a, flip_b),
    LAMBDA row0 :
    Then(GarbledRowBytes(K, seed, circuit_id, instance_id, gate_index, gate,
                         0, 1, flip_a, flip_b),
    LAMBDA row1 :
    Then(GarbledRowBytes(K, seed, circuit_id, instance_id, gate_index, gate,
                         1, 0, flip_a, flip_b),
    LAMBDA row2 :
    Then(GarbledRowBytes(K, seed, circuit_id, instance_id, gate_index, gate,
                         1, 1, flip_a, flip_b),
    LAMBDA row3 :
      Known(Collect(encode_leaf_bytes(gate, <<row0, row1, row2, row3>>)))))))))

\* The leaves of gates k.. (from 1) appended to acc, in gate-index order.
RECURSIVE GarbleFromBytes(_, _, _, _, _)
GarbleFromBytes(K, seed, layout, k, acc) ==
  IF k > Len(layout.gates) THEN Known(acc)
  ELSE Then(recompute_gate_leaf_bytes(K, seed, layout.circuit_id,
                                      layout.instance_id, k - 1,
                                      layout.gates[k]),
            LAMBDA leaf : GarbleFromBytes(K, seed, layout, k + 1,
                                          Append(acc, leaf)))

\* Garbles a full circuit in gate-index order and returns all gate leaves.
garble_circuit_bytes(K, seed, layout) ==
  GarbleFromBytes(K, seed, layout, 1, <<>>)

\* keccak256(abi.encodePacked(gateIndex, leafBytes))
gc_block_hash_bytes(K, gate_index, leaf) ==
  keccak256_bytes(K, <<uint256_from_u64_bytes(gate_index), leaf>>)

\* IH_i = keccak256(abi.encodePacked(IH_{i-1}, blockHash_i))
inc_hash_bytes(K, prev, block_hash) == keccak256_bytes(K, <<prev, block_hash>>)

\* The block hashes of leaves k.. appended to acc.
RECURSIVE BlockHashesFromBytes(_, _, _, _)
BlockHashesFromBytes(K, leaves, k, acc) ==
  IF k > Len(leaves) THEN Known(acc)
  ELSE Then(gc_block_hash_bytes(K, k - 1, leaves[k]),
            LAMBDA h : BlockHashesFromBytes(K, leaves, k + 1, Append(acc, h)))

\* The state after folding block_hashes[k..] into state.
RECURSIVE IncFoldBytes(_, _, _, _)
IncFoldBytes(K, state, block_hashes, k) ==
  IF k > Len(block_hashes) THEN Known(state)
  ELSE Then(inc_hash_bytes(K, state, block_hashes[k]),
            LAMBDA next : IncFoldBytes(K, next, block_hashes, k + 1))

\* Terminal incremental state over ordered gate block hashes.
incremental_root_from_hashes_bytes(K, block_hashes) ==
  IncFoldBytes(K, Fill(32, 0), block_hashes, 1)

\* Terminal state from raw gate leaves.
incremental_root_bytes(K, leaves) ==
  Then(BlockHashesFromBytes(K, leaves, 1, <<>>),
       LAMBDA block_hashes :
         incremental_root_from_hashes_bytes(K, block_hashes))

\* keccak256("SEED", circuitId, instanceId, masterSeed)
derive_instance_seed_bytes(K, master_seed, circuit_id, instance_id) ==
  keccak256_bytes(K, <<<<83, 69, 69, 68>>, circuit_id,
                       uint256_from_u64_bytes(instance_id), master_seed>>)

\* comSeed = keccak256(abi.encodePacked(seed))
com_seed_bytes(K, seed) == keccak256_bytes(K, <<seed>>)

\* keccak256(gateIndex, gateType, wireA, wireB, wireC)
layout_leaf_hash_bytes(K, gate_index, gate_desc) ==
  keccak256_bytes(K, <<uint256_from_u64_bytes(gate_index),
                       <<gate_desc.gate_type>>, U16BE(gate_desc.wire_a),
                       U16BE(gate_desc.wire_b), U16BE(gate_desc.wire_c)>>)

\* The label in the first 16 bytes, zeros in the remaining 16.
label16_to_bytes32_bytes(label) == label \o Fill(16, 0)

\* The output anchor of a label: keccak256 of its bytes32 form.
hash_output_label_bytes(K, label16) ==
  keccak256_bytes(K, <<label16_to_bytes32_bytes(label16)>>)

\* Sort the pair, then keccak256(left || right).
commutative_node_hash_bytes(K, a, b) ==
  IF LexLeqFrom(a, b, 1) THEN keccak256_bytes(K, <<a, b>>)
  ELSE keccak256_bytes(K, <<b, a>>)

\* ------------------------------------------------------------------------
\* State
\* ------------------------------------------------------------------------

VARIABLES
  config,       \* the session configuration every command is run with
  anchors,      \* what derive-anchors printed: h0_list, h1_list
  bundle,       \* the evaluator bundle written by prepare-eval
  x_value,      \* the --x of prepare-eval
  evalOut,      \* what evaluate-m printed
  y_value,      \* the --y of evaluate-m
  commitments,  \* the tuples sent by submit-commitments, the artifacts behind
  openings,     \* the lists sent by reveal-openings, and its --m
  gate,         \* one garbled gate, a derived label, one evaluated row
  ih,           \* one IH chain, proof and verification
  mk,           \* one Merkle tree, proof and verification
  dispute,      \* the request and outcome of one prepare-dispute
  lay,          \* the layout builder between two loop iterations
  garb,         \* the garbling and root calls made so far, in order
  ev,           \* one call of evaluate_garbled_circuit and its outcome
  kec           \* the Keccak sponge and the digests computed so far

vars ==
  <<config, anchors, bundle, x_value, evalOut, y_value, commitments, openings,
    gate, ih, mk, dispute, lay, garb, ev, kec>>

NoAnchors == [present |-> FALSE]

NoBundle == [present |-> FALSE]

NoEval == [present |-> FALSE]

NoCommitments == [present |-> FALSE]

NoOpenings == [present |-> FALSE]

NoGate == [stage |-> "idle"]

NoIH == [stage |-> "idle"]

NoMK == [stage |-> "idle"]

NoDispute == [stage |-> "idle"]

NoLayout == [stage |-> "idle"]

NoGarble == [calls |-> <<>>]

NoEvaluation == [stage |-> "idle"]

NoKeccak == [stage |-> "off"]

SessionInit ==
  /\ anchors = NoAnchors
  /\ bundle = NoBundle
  /\ x_value = 0
  /\ evalOut = NoEval
  /\ y_value = 0
  /\ commitments = NoCommitments
  /\ openings = NoOpenings

\* ------------------------------------------------------------------------
\* Session: derive-anchors, prepare-eval, evaluate-m
\* ------------------------------------------------------------------------

\* cmd_derive_anchors: prints the two anchor lists.
DeriveAnchors ==
  /\ ~anchors.present
  /\ LET a == derive_anchor_lists(config)
     IN anchors' = [present |-> TRUE, h0_list |-> a.h0, h1_list |-> a.h1]
  /\ UNCHANGED <<config, bundle, x_value, evalOut, y_value, commitments,
                 openings, gate, ih, mk,
                 dispute, lay, garb, ev, kec>>

\* cmd_prepare_eval --m m --x x: writes the bundle of instance m.
PrepareEval(m, x) ==
  /\ ~bundle.present
  /\ ensure_value_fits_bits(x, config.bit_width)
  /\ m < CUT_AND_CHOOSE_N
  /\ bundle' = PrepareEvalBundle(config, m, x)
  /\ x_value' = x
  /\ UNCHANGED <<config, anchors, evalOut, y_value, commitments, openings,
                 gate, ih, mk,
                 dispute, lay, garb, ev, kec>>

\* cmd_evaluate_m --y y: evaluates the bundle and prints the report.
EvaluateM(y) ==
  /\ bundle.present
  /\ ~evalOut.present
  /\ bundle.meta.bit_width >= 64 \/ y < Pow2(bundle.meta.bit_width)
  /\ Len(bundle.alice_labels16) = bundle.meta.bit_width
  /\ evalOut' = EvaluateBundle(bundle, y)
  /\ y_value' = y
  /\ UNCHANGED <<config, anchors, bundle, x_value, commitments, openings,
                 gate, ih, mk,
                 dispute, lay, garb, ev, kec>>

Init ==
  /\ config \in Configs
  /\ SessionInit
  /\ gate = NoGate
  /\ dispute = NoDispute
  /\ lay = NoLayout
  /\ garb = NoGarble
  /\ ev = NoEvaluation
  /\ kec = NoKeccak
  /\ ih = NoIH
  /\ mk = NoMK

Next ==
  \/ DeriveAnchors
  \/ \E m \in 0..(CUT_AND_CHOOSE_N - 1), x \in 0..(Pow2(MaxBitWidth) - 1) :
       PrepareEval(m, x)
  \/ \E y \in 0..(Pow2(MaxBitWidth) - 1) : EvaluateM(y)

Spec == Init /\ [][Next]_vars

\* ------------------------------------------------------------------------
\* Claims checked under Spec
\* ------------------------------------------------------------------------

\* The label of the comparator's greater-than output wire of instance m
\* for the semantic bit b, derived from the session configuration.
OutputLabelOf(cfg, m, b) ==
  LET gates == build_millionaires_layout(cfg.bit_width)
      out_wire == millionaires_gt_output_wire(gates, cfg.bit_width).wire
      seed == derive_instance_seed(cfg.master_seed, cfg.circuit_id, m)
  IN derive_wire_label(cfg.circuit_id, m, out_wire, b, seed)

\* H of a 16-byte label right-padded with 16 zero bytes.
PaddedHash(label) == keccak256(<<Bytes16(label) \o Fill(16, 0)>>)

GateSeed(inst) == derive_instance_seed(FixtureSeed, FixtureCircuitId, inst)

\* The wire ids offered to the label derivation: the small ones and the
\* largest u16.
LabelWires == 0..MaxGateWire \cup {U16Max}

\* derive_wire_flip_bit and derive_wire_label for both semantic bits of
\* one wire.
DeriveLabels(inst, wire) ==
  /\ gate.stage = "idle"
  /\ gate' = [stage |-> "labels", instance_id |-> inst, wire_id |-> wire,
              flip |-> derive_wire_flip_bit(FixtureCircuitId, inst, wire,
                                            GateSeed(inst)),
              label0 |-> derive_wire_label(FixtureCircuitId, inst, wire, 0,
                                           GateSeed(inst)),
              label1 |-> derive_wire_label(FixtureCircuitId, inst, wire, 1,
                                           GateSeed(inst))]
  /\ UNCHANGED <<config, anchors, bundle, x_value, evalOut, y_value,
                 commitments, openings, ih, mk,
                 dispute, lay, garb, ev, kec>>

\* recompute_gate_leaf for one gate descriptor.
GarbleGate(inst, idx, gate_type, a, b, c) ==
  /\ gate.stage = "idle"
  /\ LET desc == GateDesc(gate_type, a, b, c)
     IN gate' = [stage |-> "garbled", instance_id |-> inst,
                 gate_index |-> idx, desc |-> desc,
                 leaf |-> recompute_gate_leaf(GateSeed(inst), FixtureCircuitId,
                                              inst, idx, desc)]
  /\ UNCHANGED <<config, anchors, bundle, x_value, evalOut, y_value,
                 commitments, openings, ih, mk,
                 dispute, lay, garb, ev, kec>>

\* The AND/XOR arm of the evaluation loop on the garbled gate, the
\* evaluator holding L(a, bit_a) and L(b, bit_b).
EvalRow(bit_a, bit_b) ==
  /\ gate.stage = "garbled"
  /\ gate.desc.gate_type \in {And, Xor}
  /\ gate.desc.wire_a = gate.desc.wire_b => bit_a = bit_b
  /\ LET inst == gate.instance_id
         label_a == derive_wire_label(FixtureCircuitId, inst, gate.desc.wire_a,
                                      bit_a, GateSeed(inst))
         label_b == derive_wire_label(FixtureCircuitId, inst, gate.desc.wire_b,
                                      bit_b, GateSeed(inst))
         layout == CircuitLayout(FixtureCircuitId, inst,
                     [k \in 1..(gate.gate_index + 1) |-> gate.desc])
         leaves == [k \in 1..(gate.gate_index + 1) |-> gate.leaf]
         wire_labels ==
           [wid \in 0..Max(Max(gate.desc.wire_a, gate.desc.wire_b),
                           gate.desc.wire_c) |->
              IF wid = gate.desc.wire_a THEN Some16(label_a)
              ELSE IF wid = gate.desc.wire_b THEN Some16(label_b)
              ELSE None16]
     IN gate' = [stage |-> "evaluated", instance_id |-> inst,
                 gate_index |-> gate.gate_index, desc |-> gate.desc,
                 leaf |-> gate.leaf, bit_a |-> bit_a, bit_b |-> bit_b,
                 label_a |-> label_a, label_b |-> label_b,
                 result |-> EvalGate(layout, leaves, <<>>, wire_labels,
                                     gate.gate_index)]
  /\ UNCHANGED <<config, anchors, bundle, x_value, evalOut, y_value,
                 commitments, openings, ih, mk,
                 dispute, lay, garb, ev, kec>>

InitGate ==
  /\ config = SessionConfig(1, FixtureCircuitId, FixtureSeed)
  /\ SessionInit
  /\ gate = NoGate
  /\ dispute = NoDispute
  /\ lay = NoLayout
  /\ garb = NoGarble
  /\ ev = NoEvaluation
  /\ kec = NoKeccak
  /\ ih = NoIH
  /\ mk = NoMK

NextGate ==
  \/ \E inst \in 0..MaxGateIndex, wire \in LabelWires : DeriveLabels(inst, wire)
  \/ \E inst \in 0..MaxGateIndex, idx \in 0..MaxGateIndex,
        gate_type \in {And, Xor, Not},
        a \in 0..MaxGateWire, b \in 0..MaxGateWire, c \in 0..MaxGateWire :
       GarbleGate(inst, idx, gate_type, a, b, c)
  \/ \E bit_a \in 0..1, bit_b \in 0..1 : EvalRow(bit_a, bit_b)

SpecGate == InitGate /\ [][NextGate]_vars

\* C2: the permutation bit (LSB of byte 0) of the label of a wire for the
\* semantic bit b equals the wire's flip bit XOR b, so the two labels of a
\* wire carry opposite permutation bits.
C2_PermBitIsFlipXorSemantic ==
  gate.stage = "labels" =>
    /\ get_permutation_bit(gate.label0) = gate.flip
    /\ get_permutation_bit(gate.label1) = (gate.flip + 1) % 2
    /\ get_permutation_bit(gate.label0) # get_permutation_bit(gate.label1)

\* Both labels of a wire whose flip bit is 1 have been derived.
C2_Witness ==
  /\ gate.stage = "labels"
  /\ gate.flip = 1
  /\ get_permutation_bit(gate.label1) = 0

\* C3: for an AND or XOR gate garbled by recompute_gate_leaf and semantic
\* input bits (bA, bB), the row at index 2*permA + permB of the leaf, XORed
\* with PAD(K(gate, permA, permB, labelA, labelB)), is L(c, truth(bA, bB)),
\* and it is what the evaluator computes for the gate.
C3_SelectedRowDecrypts ==
  gate.stage = "evaluated" =>
    LET inst == gate.instance_id
        perm_a == get_permutation_bit(gate.label_a)
        perm_b == get_permutation_bit(gate.label_b)
        row == row_ct_from_leaf(gate.leaf, 2 * perm_a + perm_b)
        row_key == compute_row_key(FixtureCircuitId, inst, gate.gate_index,
                                   perm_a, perm_b, gate.label_a, gate.label_b)
        expected == derive_wire_label(FixtureCircuitId, inst, gate.desc.wire_c,
                      truth_table(gate.desc.gate_type, gate.bit_a, gate.bit_b),
                      GateSeed(inst))
    IN /\ xor16(row, expand_pad(row_key)) = expected
       /\ gate.result.ok
       /\ gate.result.label = expected

\* An AND gate on two different wires was evaluated on (1, 1) and on
\* labels whose permutation bits are not the semantic bits.
C3_Witness ==
  /\ gate.stage = "evaluated"
  /\ gate.desc.gate_type = And
  /\ gate.desc.wire_a # gate.desc.wire_b
  /\ gate.bit_a = 1
  /\ gate.bit_b = 1
  /\ get_permutation_bit(gate.label_a) = 0
  /\ get_permutation_bit(gate.label_b) = 1
  /\ gate.result.ok

\* ------------------------------------------------------------------------
\* Cut-and-choose: submit-commitments, reveal-openings
\* ------------------------------------------------------------------------

\* Option<Vec<[u8; 32]>> of a list flag: {} when the flag is absent,
\* {list} when it is given.
NoFlag == {}

Flag(list) == {list}

FlagValue(flag) == CHOOSE l \in flag : TRUE

\* The flags of submit-commitments.
CommitFlags(root_gcs, blob_hashes, h0, h1) ==
  [root_gcs |-> root_gcs, blob_hashes |-> blob_hashes, h0 |-> h0, h1 |-> h1]

\* cmd_submit_commitments up to the transaction: rejects a given list that
\* does not hold N values, then forms one seven-field tuple per instance.
SubmitCommitmentsCall(cfg, flags) ==
  LET zero == Zero32
      bad(flag) == flag # NoFlag /\ Len(FlagValue(flag)) # CUT_AND_CHOOSE_N
      blob_hashes == IF flags.blob_hashes # NoFlag
                     THEN FlagValue(flags.blob_hashes)
                     ELSE [k \in 1..CUT_AND_CHOOSE_N |-> zero]
      h0 == IF flags.h0 # NoFlag THEN FlagValue(flags.h0)
            ELSE [k \in 1..CUT_AND_CHOOSE_N |-> zero]
      h1 == IF flags.h1 # NoFlag THEN FlagValue(flags.h1)
            ELSE [k \in 1..CUT_AND_CHOOSE_N |-> zero]
      Sent(instances) ==
        LET root_gcs == IF flags.root_gcs # NoFlag
                        THEN FlagValue(flags.root_gcs)
                        ELSE [k \in 1..Len(instances) |-> instances[k].root_gc]
        IN IF bad(flags.root_gcs) \/ bad(flags.blob_hashes) \/ bad(flags.h0)
              \/ bad(flags.h1)
           THEN [ok |-> FALSE, tuples |-> <<>>, roots |-> <<>>]
           ELSE [ok |-> TRUE,
                 tuples |-> [k \in 1..Len(instances) |->
                               LET inst == instances[k]
                               IN <<inst.com_seed,
                                    root_gcs[inst.instance_id + 1],
                                    blob_hashes[inst.instance_id + 1],
                                    zero, zero,
                                    h0[inst.instance_id + 1],
                                    h1[inst.instance_id + 1]>>],
                 roots |-> [k \in 1..Len(instances) |-> instances[k].root_gc]]
  IN Sent(Collect(build_instances(cfg)))

\* cmd_reveal_openings up to the transaction.
RevealOpeningsCall(cfg, m) ==
  LET Sent(instances, r) ==
        [ok |-> r.ok, indices |-> r.indices, seeds |-> r.seeds,
         instance_seeds |-> [k \in 1..Len(instances) |-> instances[k].seed]]
      Opened(instances) ==
        Sent(instances, opened_indices_and_seeds(instances, m))
  IN Opened(Collect(build_instances(cfg)))

\* A list of n copies of one opaque 32-byte value.
OverrideList(n) == [k \in 1..n |-> Fill32(1)]

\* The flag combinations offered to submit-commitments: lists of N
\* values, the anchor lists printed by derive-anchors, and one list that is
\* one value short.
FlagChoices ==
  LET over == Flag(OverrideList(CUT_AND_CHOOSE_N))
      short == Flag(OverrideList(CUT_AND_CHOOSE_N - 1))
      plain == {CommitFlags(NoFlag, NoFlag, NoFlag, NoFlag),
                CommitFlags(over, over, NoFlag, NoFlag),
                CommitFlags(NoFlag, NoFlag, short, NoFlag)}
      anchored == IF ~anchors.present THEN {}
                  ELSE {CommitFlags(NoFlag, NoFlag, Flag(anchors.h0_list),
                                    Flag(anchors.h1_list))}
  IN plain \cup anchored

\* cmd_submit_commitments: sends the commitment tuples.
SubmitCommitments(flags) ==
  /\ ~commitments.present
  /\ \E r \in {SubmitCommitmentsCall(config, flags)} :
        /\ r.ok
        /\ commitments' = [present |-> TRUE, flags |-> flags,
                           tuples |-> r.tuples, roots |-> r.roots]
  /\ UNCHANGED <<config, anchors, bundle, x_value, evalOut, y_value, openings,
                 gate, ih, mk,
                 dispute, lay, garb, ev, kec>>

\* cmd_reveal_openings --m m: sends the opened indices and their seeds.
RevealOpenings(m) ==
  /\ ~openings.present
  /\ \E r \in {RevealOpeningsCall(config, m)} :
        /\ r.ok
        /\ openings' = [present |-> TRUE, m |-> m, indices |-> r.indices,
                        seeds |-> r.seeds,
                        instance_seeds |-> r.instance_seeds]
  /\ UNCHANGED <<config, anchors, bundle, x_value, evalOut, y_value,
                 commitments, gate, ih, mk,
                 dispute, lay, garb, ev, kec>>

InitOpen ==
  /\ config \in OpenConfigs
  /\ SessionInit
  /\ gate = NoGate
  /\ dispute = NoDispute
  /\ lay = NoLayout
  /\ garb = NoGarble
  /\ ev = NoEvaluation
  /\ kec = NoKeccak
  /\ ih = NoIH
  /\ mk = NoMK

NextOpen ==
  \/ DeriveAnchors
  \/ \E flags \in FlagChoices : SubmitCommitments(flags)
  \/ \E m \in 0..CUT_AND_CHOOSE_N : RevealOpenings(m)

SpecOpen == InitOpen /\ [][NextOpen]_vars

\* C5: for m in [0, N) the opened index list is {0..N-1} minus {m} in
\* ascending order (N-1 entries, m absent, no duplicates) and the seed list
\* has the same length, its k-th entry the seed of the instance named by
\* the k-th index.
C5_OpenedSetIsComplementOfM ==
  openings.present =>
    LET indices == openings.indices
        seeds == openings.seeds
    IN /\ openings.m \in 0..(CUT_AND_CHOOSE_N - 1)
       /\ Len(indices) = CUT_AND_CHOOSE_N - 1
       /\ \A k \in 1..Len(indices) :
            indices[k] = IF k - 1 < openings.m THEN k - 1 ELSE k
       /\ \A k \in 1..Len(indices) : indices[k] # openings.m
       /\ \A j, k \in 1..Len(indices) : j < k => indices[j] < indices[k]
       /\ {indices[k] : k \in 1..Len(indices)} \cup {openings.m}
            = 0..(CUT_AND_CHOOSE_N - 1)
       /\ Len(seeds) = Len(indices)
       /\ \A k \in 1..Len(indices) :
            seeds[k] = openings.instance_seeds[indices[k] + 1]

\* Openings were revealed for a challenge index in the middle of the range.
C5_Witness ==
  /\ openings.present
  /\ openings.m > 0
  /\ openings.m < CUT_AND_CHOOSE_N - 1

\* C6: under one session config, for every m and every opened index i,
\* the seed revealed for i is derive_instance_seed(master, circuit, i), its
\* com_seed is the seed commitment submit-commitments published for
\* instance i, and re-garbling with that seed reproduces the IH root that
\* build_instances computed for instance i.
C6_OpeningsMatchCommitments ==
  openings.present =>
    \A k \in 1..Len(openings.indices) :
      LET i == openings.indices[k]
          seed == openings.seeds[k]
          layout == CircuitLayout(config.circuit_id, i,
                      build_millionaires_layout(config.bit_width))
      IN /\ seed = derive_instance_seed(config.master_seed, config.circuit_id, i)
         /\ commitments.present =>
              /\ com_seed(seed) = commitments.tuples[i + 1][1]
              /\ incremental_root(garble_circuit(seed, layout))
                   = commitments.roots[i + 1]

\* Commitments were submitted and the openings of a challenge revealed.
C6_Witness ==
  /\ commitments.present
  /\ openings.present
  /\ Len(openings.indices) = CUT_AND_CHOOSE_N - 1
  /\ commitments.flags.root_gcs = NoFlag

\* ------------------------------------------------------------------------
\* One IH chain: proof generation, tampering, verification
\* ------------------------------------------------------------------------

\* The 32-byte values offered as replacements: the opaque values, the zero
\* value, every prefix state of the chain (the root among them) and the
\* elements of the proof.
IHValues ==
  IF ih.stage # "proved" THEN {}
  ELSE HashAtoms \cup {Zero32}
         \cup {IncFold(Zero32, ih.chain, 1, k) : k \in 0..Len(ih.chain)}
         \cup {ih.proof[j] : j \in 1..Len(ih.proof)}

\* ih_proof_from_hashes and incremental_root_from_hashes for the block at
\* index.
IHProve(index) ==
  /\ ih.stage = "chain"
  /\ index < Len(ih.chain)
  /\ ih' = [stage |-> "proved", chain |-> ih.chain, index |-> index,
            block |-> ih.chain[index + 1],
            proof |-> ih_proof_from_hashes(ih.chain, index),
            root |-> incremental_root_from_hashes(ih.chain),
            tamper |-> "none", result |-> FALSE]
  /\ UNCHANGED <<config, anchors, bundle, x_value, evalOut, y_value,
                 commitments, openings, gate, mk,
                 dispute, lay, garb, ev, kec>>

\* The challenged block hash is replaced by a different value.
IHTamperBlock(v) ==
  /\ ih.stage = "proved"
  /\ ih.tamper = "none"
  /\ v # ih.block
  /\ ih' = [ih EXCEPT !.block = v, !.tamper = "block"]
  /\ UNCHANGED <<config, anchors, bundle, x_value, evalOut, y_value,
                 commitments, openings, gate, mk,
                 dispute, lay, garb, ev, kec>>

\* One proof element is replaced by a different value.
IHTamperProof(j, v) ==
  /\ ih.stage = "proved"
  /\ ih.tamper = "none"
  /\ j \in 1..Len(ih.proof)
  /\ v # ih.proof[j]
  /\ ih' = [ih EXCEPT !.proof[j] = v, !.tamper = "proof"]
  /\ UNCHANGED <<config, anchors, bundle, x_value, evalOut, y_value,
                 commitments, openings, gate, mk,
                 dispute, lay, garb, ev, kec>>

\* verify_ih_proof against the root of the original chain.
IHVerify ==
  /\ ih.stage = "proved"
  /\ ih' = [ih EXCEPT !.stage = "verified",
                      !.result = verify_ih_proof(ih.block, ih.proof, ih.root)]
  /\ UNCHANGED <<config, anchors, bundle, x_value, evalOut, y_value,
                 commitments, openings, gate, mk,
                 dispute, lay, garb, ev, kec>>

InitIH ==
  /\ config = SessionConfig(1, FixtureCircuitId, FixtureSeed)
  /\ SessionInit
  /\ gate = NoGate
  /\ dispute = NoDispute
  /\ lay = NoLayout
  /\ garb = NoGarble
  /\ ev = NoEvaluation
  /\ kec = NoKeccak
  /\ ih \in {[stage |-> "chain", chain |-> c] :
               c \in SeqsUpTo(HashAtoms, MaxChain)}
  /\ mk = NoMK

NextIH ==
  \/ \E index \in 0..(MaxChain - 1) : IHProve(index)
  \/ \E v \in IHValues : IHTamperBlock(v)
  \/ \E j \in 1..MaxChain, v \in IHValues : IHTamperProof(j, v)
  \/ IHVerify

SpecIH == InitIH /\ [][NextIH]_vars

\* C7: for a non-empty chain of block hashes and an index i below its
\* length, the generated proof of block i verifies against the chain's
\* root (also for a one-block chain with its empty proof, for i = 0 and
\* for the last block).
C7_IHProofRoundTrip ==
  (ih.stage = "verified" /\ ih.tamper = "none") => ih.result

\* The empty proof of a one-block chain was verified.
C7_Witness ==
  /\ ih.stage = "verified"
  /\ ih.tamper = "none"
  /\ Len(ih.chain) = 1
  /\ ih.proof = <<>>
  /\ ih.result

\* C8: with the challenged block hash replaced by a different value, or
\* one proof element replaced by a different value, verification against
\* the original root returns false.
C8_IHTamperRejected ==
  (ih.stage = "verified" /\ ih.tamper # "none") => ~ih.result

\* A proof whose prefix state was replaced was verified and rejected.
C8_Witness ==
  /\ ih.stage = "verified"
  /\ ih.tamper = "proof"
  /\ Len(ih.chain) >= 2
  /\ ih.proof[1] # IncFold(Zero32, ih.chain, 1, ih.index)
  /\ ~ih.result

\* ------------------------------------------------------------------------
\* One layout Merkle tree: proof generation, tampering, verification
\* ------------------------------------------------------------------------

\* The nodes of all levels above (and including) level.
RECURSIVE LevelNodes(_)
LevelNodes(level) ==
  {level[k] : k \in 1..Len(level)}
    \cup (IF Len(level) > 1 THEN LevelNodes(NextLevel(level)) ELSE {})

\* The 32-byte values offered as replacements: the opaque values, the zero
\* value and every node of the tree (the root among them).
MerkleValues == HashAtoms \cup {Zero32} \cup LevelNodes(mk.hashes)

\* merkle_proof_from_hashes and merkle_root_from_hashes for the leaf at
\* index.
MerkleProve(index) ==
  /\ mk.stage = "leaves"
  /\ index < Len(mk.hashes)
  /\ mk' = [stage |-> "proved", hashes |-> mk.hashes, index |-> index,
            leaf |-> mk.hashes[index + 1],
            proof |-> merkle_proof_from_hashes(mk.hashes, index),
            root |-> merkle_root_from_hashes(mk.hashes),
            tamper |-> "none", result |-> FALSE]
  /\ UNCHANGED <<config, anchors, bundle, x_value, evalOut, y_value,
                 commitments, openings, gate, ih,
                 dispute, lay, garb, ev, kec>>

\* The leaf hash is replaced by a different value.
MerkleTamperLeaf(v) ==
  /\ mk.stage = "proved"
  /\ mk.tamper = "none"
  /\ v # mk.leaf
  /\ mk' = [mk EXCEPT !.leaf = v, !.tamper = "leaf"]
  /\ UNCHANGED <<config, anchors, bundle, x_value, evalOut, y_value,
                 commitments, openings, gate, ih,
                 dispute, lay, garb, ev, kec>>

\* One sibling of the proof is replaced by a different value.
MerkleTamperSibling(j, v) ==
  /\ mk.stage = "proved"
  /\ mk.tamper = "none"
  /\ j \in 1..Len(mk.proof)
  /\ v # mk.proof[j]
  /\ mk' = [mk EXCEPT !.proof[j] = v, !.tamper = "sibling"]
  /\ UNCHANGED <<config, anchors, bundle, x_value, evalOut, y_value,
                 commitments, openings, gate, ih,
                 dispute, lay, garb, ev, kec>>

\* verify_proof against the root of the original tree.
MerkleVerify ==
  /\ mk.stage = "proved"
  /\ mk' = [mk EXCEPT !.stage = "verified",
                      !.result = verify_proof(mk.leaf, mk.proof, mk.root)]
  /\ UNCHANGED <<config, anchors, bundle, x_value, evalOut, y_value,
                 commitments, openings, gate, ih,
                 dispute, lay, garb, ev, kec>>

\* merkle_root_from_hashes alone, for any list of hashes.
MerkleRoot ==
  /\ mk.stage = "leaves"
  /\ mk' = [stage |-> "rooted", hashes |-> mk.hashes,
            root |-> merkle_root_from_hashes(mk.hashes), earlier |-> <<>>]
  /\ UNCHANGED <<config, anchors, bundle, x_value, evalOut, y_value,
                 commitments, openings, gate, ih,
                 dispute, lay, garb, ev, kec>>

\* merkle_root_from_hashes once more, for the list with a copy of its last
\* hash appended.
MerkleRootAppended ==
  /\ mk.stage = "rooted"
  /\ mk.earlier = <<>>
  /\ mk.hashes # <<>>
  /\ \E longer \in {Append(mk.hashes, mk.hashes[Len(mk.hashes)])} :
       mk' = [stage |-> "rooted", hashes |-> longer,
              root |-> merkle_root_from_hashes(longer),
              earlier |-> <<[hashes |-> mk.hashes, root |-> mk.root]>>]
  /\ UNCHANGED <<config, anchors, bundle, x_value, evalOut, y_value,
                 commitments, openings, gate, ih,
                 dispute, lay, garb, ev, kec>>

InitMerkle ==
  /\ config = SessionConfig(1, FixtureCircuitId, FixtureSeed)
  /\ SessionInit
  /\ gate = NoGate
  /\ dispute = NoDispute
  /\ lay = NoLayout
  /\ garb = NoGarble
  /\ ev = NoEvaluation
  /\ kec = NoKeccak
  /\ ih = NoIH
  /\ mk \in {[stage |-> "leaves", hashes |-> h] :
               h \in SeqsUpTo(HashAtoms, MaxLeaves) \cup {<<>>}}

NextMerkle ==
  \/ \E index \in 0..(MaxLeaves - 1) : MerkleProve(index)
  \/ \E v \in MerkleValues : MerkleTamperLeaf(v)
  \/ \E j \in 1..MaxLeaves, v \in MerkleValues : MerkleTamperSibling(j, v)
  \/ MerkleVerify
  \/ MerkleRoot
  \/ MerkleRootAppended

SpecMerkle == InitMerkle /\ [][NextMerkle]_vars

\* C9: for a non-empty list of leaf hashes of any length (odd widths
\* included, the last node paired with itself) and every index, the
\* generated proof of the leaf verifies against the root of the list.
C9_MerkleProofRoundTrip ==
  (mk.stage = "verified" /\ mk.tamper = "none") => mk.result

\* The proof of the last leaf of a three-leaf tree, whose first sibling is
\* the leaf itself, was verified.
C9_Witness ==
  /\ mk.stage = "verified"
  /\ mk.tamper = "none"
  /\ Len(mk.hashes) = 3
  /\ mk.index = 2
  /\ mk.proof[1] = mk.leaf
  /\ mk.hashes[1] # mk.hashes[2]
  /\ mk.result

\* C10: with the leaf hash replaced by a different value, or one sibling
\* of the proof replaced by a different value, verification against the
\* original root returns false.
C10_MerkleTamperRejected ==
  (mk.stage = "verified" /\ mk.tamper # "none") => ~mk.result

\* A proof with one replaced sibling was verified and rejected.
C10_Witness ==
  /\ mk.stage = "verified"
  /\ mk.tamper = "sibling"
  /\ Len(mk.proof) >= 2
  /\ ~mk.result

\* C18: the leaf recomputed for a NOT gate, at any gate index and for any
\* seed and instance, has the NOT opcode 2 as byte 0 and four ciphertext
\* rows that are all zero.
C18_NotGateRowsAreZero ==
  (gate.stage = "garbled" /\ gate.desc.gate_type = Not) =>
    /\ gate.leaf.hdr[1] = 2
    /\ Len(gate.leaf.hdr) = 7
    /\ \A row_index \in 1..4 :
         gate.leaf.rows[row_index] = [byte0 |-> 0, atoms |-> {}]

\* A NOT gate was garbled at a gate index and instance other than 0.
C18_Witness ==
  /\ gate.stage = "garbled"
  /\ gate.desc.gate_type = Not
  /\ gate.gate_index > 0
  /\ gate.instance_id > 0
  /\ gate.leaf.hdr[1] = 2

\* C20: every commitment tuple that submit-commitments sends for instance
\* i carries, in its last two fields, the hash of that instance's padded
\* semantic-1 output label and the hash of its padded semantic-0 output
\* label, never a default put in their place.
C20_TuplesCarryAnchors ==
  commitments.present =>
    \A i \in 0..(CUT_AND_CHOOSE_N - 1) :
      {commitments.tuples[i + 1][6], commitments.tuples[i + 1][7]} =
        {PaddedHash(OutputLabelOf(config, i, 1)),
         PaddedHash(OutputLabelOf(config, i, 0))}

\* ------------------------------------------------------------------------
\* Garbling and root calls: garble_circuit, incremental_root
\* ------------------------------------------------------------------------

\* The leaves offered to incremental_root: gate leaves garbled under the
\* fixture seed, pairwise different.
RootLeaves ==
  {recompute_gate_leaf(GateSeed(0), FixtureCircuitId, 0, 0,
                       GateDesc(t % 3, 0, 1, 2 + (t \div 3))) :
     t \in 0..(NumAtoms - 1)}

\* The seeds and instance ids offered to garble_circuit.
GarbleIds == 0..MaxGateIndex

\* One call of garble_circuit on the one-bit comparator layout, appended to
\* the calls made so far.
GarbleCircuit(seed_of, inst) ==
  /\ Len(garb.calls) < 3
  /\ \A k \in 1..Len(garb.calls) : garb.calls[k].kind = "garble"
  /\ \E layout \in {CircuitLayout(FixtureCircuitId, inst,
                                  build_millionaires_layout(1))} :
       garb' = [calls |-> Append(garb.calls,
                  [kind |-> "garble", seed |-> GateSeed(seed_of),
                   layout |-> layout,
                   leaves |-> Collect(garble_circuit(GateSeed(seed_of),
                                                     layout))])]
  /\ UNCHANGED <<config, anchors, bundle, x_value, evalOut, y_value,
                 commitments, openings, gate, ih, mk, dispute, lay, ev, kec>>

\* One call of incremental_root on a list of leaves, appended to the calls
\* made so far.
IncrementalRoot(leaves) ==
  /\ Len(garb.calls) < 2
  /\ \A k \in 1..Len(garb.calls) : garb.calls[k].kind = "root"
  /\ garb' = [calls |-> Append(garb.calls,
                [kind |-> "root", leaves |-> leaves,
                 root |-> incremental_root(leaves)])]
  /\ UNCHANGED <<config, anchors, bundle, x_value, evalOut, y_value,
                 commitments, openings, gate, ih, mk, dispute, lay, ev, kec>>

InitGarble ==
  /\ config = SessionConfig(1, FixtureCircuitId, FixtureSeed)
  /\ SessionInit
  /\ gate = NoGate
  /\ dispute = NoDispute
  /\ lay = NoLayout
  /\ garb = NoGarble
  /\ ev = NoEvaluation
  /\ kec = NoKeccak
  /\ ih = NoIH
  /\ mk = NoMK

NextGarble ==
  \/ \E seed_of \in GarbleIds, inst \in GarbleIds : GarbleCircuit(seed_of, inst)
  \/ \E leaves \in SeqsUpTo(RootLeaves, MaxChain) \cup {<<>>} :
       IncrementalRoot(leaves)

SpecGarble == InitGarble /\ [][NextGarble]_vars

\* S_n of the fold S_0 = 32 zero bytes,
\* S_{k+1} = H(S_k || H(k as uint256 || l_k)) over the leaves l_0..l_{n-1}.
RECURSIVE LeftFoldState(_, _)
LeftFoldState(leaves, n) ==
  IF n = 0 THEN Fill32(0)
  ELSE keccak256(<<LeftFoldState(leaves, n - 1),
                   keccak256(<<uint256_from_u64(n - 1),
                               LeafBytes(leaves[n])>>)>>)

\* C11: incremental_root over the leaves l_0..l_{n-1} is the state S_n of
\* the left fold S_0 = 32 zero bytes, S_{k+1} = H(S_k || H(k_u256 || l_k));
\* equal ordered leaf sequences give equal roots, and the blocks are consumed
\* in gate-index order, so the same leaves in another order give another root.
C11_RootIsLeftFold ==
  \A j \in 1..Len(garb.calls) :
    garb.calls[j].kind = "root" =>
      /\ garb.calls[j].root =
           LeftFoldState(garb.calls[j].leaves, Len(garb.calls[j].leaves))
      /\ \A k \in 1..Len(garb.calls) :
           (garb.calls[k].leaves = garb.calls[j].leaves)
             <=> (garb.calls[k].root = garb.calls[j].root)

\* Roots were computed over two different leaves in both orders.
C11_Witness ==
  /\ Len(garb.calls) = 2
  /\ garb.calls[1].kind = "root"
  /\ Len(garb.calls[1].leaves) = 2
  /\ garb.calls[1].leaves[1] # garb.calls[1].leaves[2]
  /\ garb.calls[2].leaves =
       <<garb.calls[1].leaves[2], garb.calls[1].leaves[1]>>
  /\ garb.calls[1].root # garb.calls[2].root

LayoutWidths ==
  (1..MaxBitWidth)
    \cup {(U16Max + 6) \div 11, (U16Max + 6) \div 11 + 1, U16Max \div 4}

\* build_millionaires_layout up to its loop: the two assertions, then the
\* empty gate list, next_wire = 2 * bit_width and the empty accumulators.
LayoutStart(bit_width) ==
  /\ lay.stage = "idle"
  /\ bit_width > 0
  /\ bit_width <= U16Max \div 4
  /\ lay' = [stage |-> "building", bit_width |-> bit_width,
             bit |-> bit_width - 1, first |-> 0, written |-> NoWire,
             st |-> [gates |-> <<>>,
                     next_wire |-> (bit_width * 2) % (U16Max + 1),
                     gt_acc |-> NoWire, eq_acc |-> NoWire, out |-> NoWire]]
  /\ UNCHANGED <<config, anchors, bundle, x_value, evalOut, y_value,
                 commitments, openings, gate, ih, mk, dispute, garb, ev, kec>>

\* One iteration of the loop over the bits, from the most significant one
\* down.  Of the gate list the state keeps the gates pushed by the latest
\* iteration, in first the index of the first of them, and in written the
\* output wire of the last gate before them.
LayoutStep ==
  /\ lay.stage = "building"
  /\ lay.bit >= 0
  /\ lay' = [lay EXCEPT
               !.st = LayoutBit([lay.st EXCEPT !.gates = <<>>], lay.bit,
                                lay.bit_width),
               !.first = @ + Len(lay.st.gates),
               !.written = IF lay.st.gates = <<>> THEN @
                           ELSE lay.st.gates[Len(lay.st.gates)].wire_c,
               !.bit = @ - 1]
  /\ UNCHANGED <<config, anchors, bundle, x_value, evalOut, y_value,
                 commitments, openings, gate, ih, mk, dispute, garb, ev, kec>>

InitLayout ==
  /\ config = SessionConfig(1, FixtureCircuitId, FixtureSeed)
  /\ SessionInit
  /\ gate = NoGate
  /\ dispute = NoDispute
  /\ lay = NoLayout
  /\ garb = NoGarble
  /\ ev = NoEvaluation
  /\ kec = NoKeccak
  /\ ih = NoIH
  /\ mk = NoMK

NextLayout ==
  \/ \E bit_width \in LayoutWidths : LayoutStart(bit_width)
  \/ LayoutStep

SpecLayout == InitLayout /\ [][NextLayout]_vars

\* C17: for every bit width w the builder accepts, gate k writes wire
\* 2w + k, so the output wire ids are strictly increasing from 2w, none
\* repeats and none is an input wire.
C17_OutputWiresFresh ==
  lay.stage = "building" =>
    \A j \in 1..Len(lay.st.gates) :
      /\ lay.st.gates[j].wire_c = 2 * lay.bit_width + lay.first + (j - 1)
      /\ lay.st.gates[j].wire_c >= 2 * lay.bit_width
      /\ j > 1 => lay.st.gates[j].wire_c > lay.st.gates[j - 1].wire_c

\* ------------------------------------------------------------------------
\* Dispute preparation (off-chain-bob/src/main.rs)
\* ------------------------------------------------------------------------

\* gate_index and expected_root_gc are Options: NoFlag when the flag is
\* absent, Flag(v) when it is given.
PrepareDisputeConfig(bit_width, circuit_id, instance_id, seed, claimed_leaves, gate_index, allow_false_challenge, expected_root_gc) ==
  [bit_width |-> bit_width, circuit_id |-> circuit_id,
   instance_id |-> instance_id, seed |-> seed,
   claimed_leaves |-> claimed_leaves, gate_index |-> gate_index,
   allow_false_challenge |-> allow_false_challenge,
   expected_root_gc |-> expected_root_gc]

\* The comparison of each claimed leaf with the expected leaf of the
\* following gate (the last one with the first).
MismatchIndicesShifted(claimed_leaves, expected_leaves) ==
  SelectSeq([k \in 1..Len(claimed_leaves) |-> k - 1],
            LAMBDA idx : claimed_leaves[idx + 1]
                           # expected_leaves[((idx + 1) % Len(expected_leaves))
                                             + 1])

\* The indices, ascending, of the claimed leaves that differ from the
\* expected leaf of the same gate.
MismatchIndices(claimed_leaves, expected_leaves) ==
  SelectSeq([k \in 1..Len(claimed_leaves) |-> k - 1],
            LAMBDA idx : claimed_leaves[idx + 1] # expected_leaves[idx + 1])

\* The selection that falls back to the last mismatch.
SelectedGateIndexLast(gate_index, mismatch_indices) ==
  IF gate_index # NoFlag THEN FlagValue(gate_index)
  ELSE mismatch_indices[Len(mismatch_indices)]

\* config.gate_index.unwrap_or_else(|| mismatch_indices[0])
SelectedGateIndex(gate_index, mismatch_indices) ==
  IF gate_index # NoFlag THEN FlagValue(gate_index) ELSE mismatch_indices[1]

\* The check that takes every selected gate for a mismatch.
SelectedIsMismatchAlways(mismatch_indices, selected_gate_index) == TRUE

\* mismatch_indices.contains(&selected_gate_index)
SelectedIsMismatch(mismatch_indices, selected_gate_index) ==
  \E k \in 1..Len(mismatch_indices) : mismatch_indices[k] = selected_gate_index

\* The block hashes with the gate index counted from one.
DisputeBlockHashesFromOne(claimed_leaves) ==
  [k \in 1..Len(claimed_leaves) |-> gc_block_hash(k, claimed_leaves[k])]

\* The block hashes of the claimed leaves, the gate index from zero.
DisputeBlockHashes(claimed_leaves) ==
  [k \in 1..Len(claimed_leaves) |-> gc_block_hash(k - 1, claimed_leaves[k])]

\* The layout leaf hashes with the instance id added to the gate index.
DisputeLayoutHashesByInstance(cfg, gates) ==
  [k \in 1..Len(gates) |->
     layout_leaf_hash(k - 1 + cfg.instance_id, gates[k])]

\* The layout leaf hashes of the request's gates, the gate index from zero.
DisputeLayoutHashes(cfg, gates) ==
  [k \in 1..Len(gates) |-> layout_leaf_hash(k - 1, gates[k])]

\* The range check that lets the gate count itself pass.
GateIndexInRangeInclusive(selected_gate_index, gates) ==
  selected_gate_index <= Len(gates)

\* !(selected_gate_index >= gates.len())
GateIndexInRange(selected_gate_index, gates) ==
  selected_gate_index < Len(gates)

\* The comparison that takes every expected root for the computed one.
RootMatchesExpectedAlways(root_gc, expected_root_gc) == TRUE

\* No expected root was given, or the computed root equals it.
RootMatchesExpected(root_gc, expected_root_gc) ==
  expected_root_gc = NoFlag \/ root_gc = FlagValue(expected_root_gc)

\* Result<PreparedDispute>: the packet, or the error that ended the call.
prepare_dispute_packet(cfg) ==
  LET Err(kind) == [ok |-> FALSE, err |-> kind]
      Packet(gates, expected_leaves, mismatch_indices, selected_gate_index, block_hashes, layout_leaf_hashes, root_gc) ==
        IF ~RootMatchesExpected(root_gc, cfg.expected_root_gc)
        THEN Err("root_gc")
        ELSE [ok |-> TRUE, err |-> "",
              gate_index |-> selected_gate_index,
              gate |-> gates[selected_gate_index + 1],
              claimed_leaf |-> cfg.claimed_leaves[selected_gate_index + 1],
              expected_leaf |-> expected_leaves[selected_gate_index + 1],
              mismatch_indices |-> mismatch_indices,
              root_gc |-> root_gc,
              layout_root |-> merkle_root_from_hashes(layout_leaf_hashes),
              ih_proof |-> ih_proof_from_hashes(block_hashes,
                                                selected_gate_index),
              layout_proof |-> merkle_proof_from_hashes(layout_leaf_hashes,
                                                        selected_gate_index)]
      Hashed(gates, expected_leaves, mismatch_indices, selected_gate_index, block_hashes) ==
        Packet(gates, expected_leaves, mismatch_indices, selected_gate_index,
               block_hashes, Collect(DisputeLayoutHashes(cfg, gates)),
               incremental_root_from_hashes(block_hashes))
      Selected(gates, expected_leaves, mismatch_indices, selected_gate_index) ==
        IF ~GateIndexInRange(selected_gate_index, gates)
        THEN Err("gate_index")
        ELSE IF ~SelectedIsMismatch(mismatch_indices, selected_gate_index)
                /\ ~cfg.allow_false_challenge
        THEN Err("false_challenge")
        ELSE Hashed(gates, expected_leaves, mismatch_indices,
                    selected_gate_index,
                    Collect(DisputeBlockHashes(cfg.claimed_leaves)))
      Compared(gates, expected_leaves, mismatch_indices) ==
        IF mismatch_indices = <<>> /\ cfg.gate_index = NoFlag
        THEN Err("no_mismatch")
        ELSE Selected(gates, expected_leaves, mismatch_indices,
                      SelectedGateIndex(cfg.gate_index, mismatch_indices))
      Garbled(gates, expected_leaves) ==
        Compared(gates, expected_leaves,
                 MismatchIndices(cfg.claimed_leaves, expected_leaves))
      Built(gates) ==
        IF ~LeafCountMatches(cfg.claimed_leaves, gates)
        THEN Err("leaf_count")
        ELSE Garbled(gates,
               Collect(garble_circuit(cfg.seed,
                         CircuitLayout(cfg.circuit_id, cfg.instance_id,
                                       gates))))
  IN Built(build_millionaires_layout(cfg.bit_width))

\* The canonical leaves of an instance: the one-bit comparator garbled
\* under the instance's seed.
CanonicalLeaves(circuit_id, instance_id, seed, bit_width) ==
  Collect(garble_circuit(seed,
            CircuitLayout(circuit_id, instance_id,
                          build_millionaires_layout(bit_width))))

\* The claimed-leaves file: the canonical leaves with the lowest bit of
\* byte 0 flipped in the leaves at the tampered gate indices, and without
\* the last leaf when the file is short.
ClaimedLeaves(canonical, tampered, short) ==
  [k \in 1..(Len(canonical) - (IF short THEN 1 ELSE 0)) |->
     IF (k - 1) \in tampered
     THEN [canonical[k] EXCEPT !.hdr[1] = ByteXor(@, 1)]
     ELSE canonical[k]]

\* The sets of tampered gate indices offered.
DisputeTampers == {{}, {0}, {2}, {1, 3}}

\* The request of prepare-dispute for instance inst of the one-bit
\* comparator.  root_tag says what --expected-root-gc holds: nothing, the
\* IH root of the claimed leaves, or another value.
DisputeRequest(inst, tampered, short, gate_index, allow, root_tag) ==
  LET Request(claimed) ==
        PrepareDisputeConfig(1, FixtureCircuitId, inst, GateSeed(inst),
          claimed, gate_index, allow,
          IF root_tag = "none" THEN NoFlag
          ELSE IF root_tag = "claimed" THEN Flag(incremental_root(claimed))
          ELSE Flag(Zero32))
  IN Request(Collect(ClaimedLeaves(
       CanonicalLeaves(FixtureCircuitId, inst, GateSeed(inst), 1),
       tampered, short)))

\* cmd_prepare_dispute: one run, from the flags to the packet or the error.
PrepareDispute(inst, tampered, short, gate_index, allow, root_tag) ==
  /\ dispute.stage = "idle"
  /\ \E cfg \in {DisputeRequest(inst, tampered, short, gate_index, allow,
                                root_tag)} :
       dispute' = [stage |-> "first", request |-> cfg, root_tag |-> root_tag,
                   result |-> prepare_dispute_packet(cfg), earlier |-> <<>>]
  /\ UNCHANGED <<config, anchors, bundle, x_value, evalOut, y_value,
                 commitments, openings, gate, ih, mk, lay, garb, ev, kec>>

\* A second run of prepare-dispute, after a run that returned a packet,
\* that differs from it in the instance, its seed and the claimed leaves
\* only.
PrepareDisputeAgain(inst, tampered, short) ==
  /\ dispute.stage = "first"
  /\ dispute.result.ok
  /\ \E cfg \in {DisputeRequest(inst, tampered, short,
                                dispute.request.gate_index,
                                dispute.request.allow_false_challenge,
                                dispute.root_tag)} :
       dispute' = [stage |-> "second", request |-> cfg,
                   root_tag |-> dispute.root_tag,
                   result |-> prepare_dispute_packet(cfg),
                   earlier |-> <<[request |-> dispute.request,
                                  result |-> dispute.result]>>]
  /\ UNCHANGED <<config, anchors, bundle, x_value, evalOut, y_value,
                 commitments, openings, gate, ih, mk, lay, garb, ev, kec>>

InitDispute ==
  /\ config = SessionConfig(1, FixtureCircuitId, FixtureSeed)
  /\ SessionInit
  /\ gate = NoGate
  /\ dispute = NoDispute
  /\ lay = NoLayout
  /\ garb = NoGarble
  /\ ev = NoEvaluation
  /\ kec = NoKeccak
  /\ ih = NoIH
  /\ mk = NoMK

NextDispute ==
  \/ \E inst \in 0..MaxGateIndex, tampered \in DisputeTampers,
        short \in BOOLEAN,
        gate_index \in {NoFlag} \cup {Flag(g) : g \in 0..4},
        allow \in BOOLEAN, root_tag \in {"none", "claimed", "other"} :
       /\ short => tampered = {}
       /\ PrepareDispute(inst, tampered, short, gate_index, allow, root_tag)
  \/ \E inst \in 0..MaxGateIndex, tampered \in DisputeTampers :
       PrepareDisputeAgain(inst, tampered, FALSE)

SpecDispute == InitDispute /\ [][NextDispute]_vars

\* The canonical leaves of the instance the request names.
RequestCanonical(cfg) ==
  CanonicalLeaves(cfg.circuit_id, cfg.instance_id, cfg.seed, cfg.bit_width)

\* The gate indices whose claimed leaf differs from the canonical leaf.
Differing(claimed, canonical) ==
  {g \in 0..(Len(claimed) - 1) : claimed[g + 1] # canonical[g + 1]}

\* C12: when no gate index is supplied and at least one claimed leaf differs
\* from the canonical leaf recomputed from the seed, the packet returned
\* carries the smallest gate index whose claimed leaf differs, the gate
\* descriptor at that index, and the claimed and canonical leaves at it.
C12_PicksSmallestMismatch ==
  LET Check(req, res, canonical) ==
        (/\ req.gate_index = NoFlag
         /\ Len(req.claimed_leaves) = Len(canonical)
         /\ Differing(req.claimed_leaves, canonical) # {}) =>
          /\ res.ok \/ res.err = "root_gc"
          /\ res.ok =>
               /\ res.gate_index \in Differing(req.claimed_leaves, canonical)
               /\ \A g \in Differing(req.claimed_leaves, canonical) :
                    res.gate_index <= g
               /\ res.gate =
                    build_millionaires_layout(req.bit_width)[res.gate_index + 1]
               /\ res.claimed_leaf = req.claimed_leaves[res.gate_index + 1]
               /\ res.expected_leaf = canonical[res.gate_index + 1]
  IN dispute.stage # "idle" =>
       Check(dispute.request, dispute.result, RequestCanonical(dispute.request))

\* A packet was returned for a file with two differing leaves, none of them
\* leaf 0, and no gate index given.
C12_Witness ==
  /\ dispute.stage # "idle"
  /\ dispute.request.gate_index = NoFlag
  /\ dispute.result.ok
  /\ dispute.result.gate_index = 1
  /\ dispute.result.mismatch_indices = <<1, 3>>

\* C13: a supplied gate index whose claimed leaf equals the canonical leaf,
\* without allow_false_challenge, gives the false-challenge error and no
\* packet, even when other gates mismatch; so every packet produced without
\* the override has claimed_leaf # expected_leaf.
C13_FalseChallengeRefused ==
  LET Check(req, res, canonical) ==
        /\ (/\ req.gate_index # NoFlag
            /\ ~req.allow_false_challenge
            /\ Len(req.claimed_leaves) = Len(canonical)
            /\ FlagValue(req.gate_index) < Len(canonical)
            /\ FlagValue(req.gate_index)
                 \notin Differing(req.claimed_leaves, canonical)) =>
             (~res.ok /\ res.err = "false_challenge")
        /\ (res.ok /\ ~req.allow_false_challenge) =>
             res.claimed_leaf # res.expected_leaf
  IN dispute.stage # "idle" =>
       Check(dispute.request, dispute.result, RequestCanonical(dispute.request))

\* A false challenge was refused although two other gates mismatch.
C13_Witness ==
  /\ dispute.stage # "idle"
  /\ dispute.request.gate_index = Flag(2)
  /\ ~dispute.request.allow_false_challenge
  /\ Differing(dispute.request.claimed_leaves,
               RequestCanonical(dispute.request)) = {1, 3}
  /\ ~dispute.result.ok
  /\ dispute.result.err = "false_challenge"

C15_PacketSelfConsistent ==
  (dispute.stage # "idle" /\ dispute.result.ok) =>
    /\ dispute.result.root_gc = incremental_root(dispute.request.claimed_leaves)
    /\ verify_ih_proof(gc_block_hash(dispute.result.gate_index,
                                     dispute.result.claimed_leaf),
                       dispute.result.ih_proof, dispute.result.root_gc)
    /\ verify_proof(layout_leaf_hash(dispute.result.gate_index,
                                     dispute.result.gate),
                    dispute.result.layout_proof, dispute.result.layout_root)

\* A packet was returned for a tampered leaf in the middle of the chain.
C15_Witness ==
  /\ dispute.stage # "idle"
  /\ dispute.result.ok
  /\ dispute.result.gate_index = 2
  /\ dispute.result.claimed_leaf # dispute.result.expected_leaf
  /\ Len(dispute.result.ih_proof) = 2
  /\ Len(dispute.result.layout_proof) = 2

\* C16: for a fixed bit width, two runs that differ only in seed, instance
\* or claimed leaves produce the same layout root, and the same layout
\* proof when they select the same gate index.
C16_LayoutRootIndependent ==
  (/\ dispute.stage = "second"
   /\ dispute.result.ok
   /\ dispute.earlier[1].result.ok
   /\ dispute.request.bit_width = dispute.earlier[1].request.bit_width) =>
    /\ dispute.result.layout_root = dispute.earlier[1].result.layout_root
    /\ dispute.result.gate_index = dispute.earlier[1].result.gate_index =>
         dispute.result.layout_proof = dispute.earlier[1].result.layout_proof

\* Two packets for different instances, seeds and claimed leaves selected
\* the same gate.
C16_Witness ==
  /\ dispute.stage = "second"
  /\ dispute.result.ok
  /\ dispute.earlier[1].result.ok
  /\ dispute.request.instance_id # dispute.earlier[1].request.instance_id
  /\ dispute.request.seed # dispute.earlier[1].request.seed
  /\ dispute.request.claimed_leaves # dispute.earlier[1].request.claimed_leaves
  /\ dispute.result.root_gc # dispute.earlier[1].result.root_gc
  /\ dispute.result.gate_index = dispute.earlier[1].result.gate_index
  /\ dispute.result.gate_index > 0

\* ------------------------------------------------------------------------
\* Parity vectors (tests/parity_vectors.rs), hashed round by round
\* ------------------------------------------------------------------------

\* base_inputs(): ([0x11; 32], [0x22; 32], 3)
BaseCircuitId == Fill(32, 17)

BaseSeed == Fill(32, 34)

BaseInstanceId == 3

\* consensus_vectors_are_stable: flip, l0, l1, rk, pad.
ConsensusVectors(K) ==
  Then(derive_wire_flip_bit_bytes(K, BaseCircuitId, BaseInstanceId, 7,
                                  BaseSeed),
  LAMBDA flip :
  Then(derive_wire_label_bytes(K, BaseCircuitId, BaseInstanceId, 7, 0,
                               BaseSeed),
  LAMBDA l0 :
  Then(derive_wire_label_bytes(K, BaseCircuitId, BaseInstanceId, 7, 1,
                               BaseSeed),
  LAMBDA l1 :
  Then(compute_row_key_bytes(K, BaseCircuitId, BaseInstanceId, 9, 1, 0, l0,
                             l1),
  LAMBDA rk :
  Then(expand_pad_bytes(K, rk),
  LAMBDA pad :
    Known([flip |-> flip, l0 |-> l0, l1 |-> l1, rk |-> rk, pad |-> pad]))))))

\* The layout of whole_circuit_and_incremental_root_are_stable.
WholeCircuitLayout ==
  CircuitLayout(BaseCircuitId, BaseInstanceId,
                <<GateDesc(And, 0, 1, 2), GateDesc(Xor, 2, 3, 4),
                  GateDesc(Not, 4, 0, 5)>>)

\* whole_circuit_and_incremental_root_are_stable: leaves, root.
WholeCircuitRoot(K) ==
  Then(garble_circuit_bytes(K, BaseSeed, WholeCircuitLayout),
  LAMBDA leaves :
  Then(incremental_root_bytes(K, leaves),
  LAMBDA root : Known([leaves |-> leaves, root |-> root])))

\* Both tests, one after the other.
ParityTests(K) ==
  Then(ConsensusVectors(K),
       LAMBDA v : Then(WholeCircuitRoot(K),
                       LAMBDA c : Known([vectors |-> v, circuit |-> c])))

\* keccak256 is entered for the first digest the test still lacks: the
\* preimage is padded and absorbed.
SpongeAbsorb ==
  /\ kec.stage = "idle"
  /\ LET r == ParityTests(kec.memo)
     IN /\ ~r.ok
        /\ Len(r.need) < KeccakRateBytes
        /\ kec' = [kec EXCEPT !.stage = "permuting", !.preimage = r.need,
                              !.state = KeccakAbsorb(KeccakPad(r.need)),
                              !.round = 0]
  /\ UNCHANGED <<config, anchors, bundle, x_value, evalOut, y_value,
                 commitments, openings, gate, ih, mk, dispute, lay, garb, ev>>

\* One round of the permutation.
SpongePermute ==
  /\ kec.stage = "permuting"
  /\ kec.round < 24
  /\ kec' = [kec EXCEPT !.state = KeccakRound(kec.state, kec.round),
                        !.round = @ + 1]
  /\ UNCHANGED <<config, anchors, bundle, x_value, evalOut, y_value,
                 commitments, openings, gate, ih, mk, dispute, lay, garb, ev>>

\* finalize(): the digest is read off and returned to the caller.
SpongeSqueeze ==
  /\ kec.stage = "permuting"
  /\ kec.round = 24
  /\ kec' = [kec EXCEPT !.stage = "idle",
                        !.memo = (kec.preimage :> KeccakSqueeze(kec.state))
                                   @@ kec.memo,
                        !.preimage = <<>>, !.state = <<>>, !.round = 0]
  /\ UNCHANGED <<config, anchors, bundle, x_value, evalOut, y_value,
                 commitments, openings, gate, ih, mk, dispute, lay, garb, ev>>

InitParity ==
  /\ config = SessionConfig(1, FixtureCircuitId, FixtureSeed)
  /\ SessionInit
  /\ gate = NoGate
  /\ ih = NoIH
  /\ mk = NoMK
  /\ dispute = NoDispute
  /\ lay = NoLayout
  /\ garb = NoGarble
  /\ ev = NoEvaluation
  /\ kec = [stage |-> "idle", memo |-> <<>>, preimage |-> <<>>,
            state |-> <<>>, round |-> 0]

NextParity ==
  \/ SpongeAbsorb
  \/ SpongePermute
  \/ SpongeSqueeze

SpecParity == InitParity /\ [][NextParity]_vars

\* The values pinned by the two tests.
PinnedL0 == <<54, 103, 131, 10, 17, 168, 13, 253, 207, 106, 41, 181, 5, 86, 150, 94>>

PinnedL1 == <<13, 185, 85, 45, 24, 189, 43, 60, 116, 145, 111, 186, 130, 238, 217, 221>>

PinnedRowKey == <<85, 123, 153, 68, 172, 10, 6, 244, 126, 62, 32, 41, 138, 113, 71, 49, 164, 29, 59, 177, 38, 46, 215, 207, 62, 176, 235, 87, 128, 67, 30, 238>>

PinnedPad == <<175, 177, 31, 152, 184, 36, 213, 23, 207, 168, 63, 215, 52, 49, 170, 172>>

PinnedRoot == <<115, 163, 11, 221, 236, 28, 235, 102, 226, 104, 13, 213, 67, 33, 247, 52, 172, 146, 176, 56, 142, 226, 50, 0, 158, 208, 180, 94, 219, 122, 63, 232>>

\* r is not yet known, or it is the value v.
KnownIs(r, v) == r.ok => r.val = v

\* C21: with circuitId = 32 bytes of 0x11, seed = 32 bytes of 0x22,
\* instanceId = 3 and wireId = 7, every derivation that has all its digests
\* returns the pinned value: flip bit 0, L(7,0), L(7,1), the row key of gate
\* 9 with permA = 1, permB = 0, its pad, and the IH root of the 3-gate
\* circuit.
C21_PinnedVectors ==
  kec.stage = "idle" =>
    /\ KnownIs(derive_wire_flip_bit_bytes(kec.memo, BaseCircuitId,
                                          BaseInstanceId, 7, BaseSeed), 0)
    /\ KnownIs(derive_wire_label_bytes(kec.memo, BaseCircuitId,
                                       BaseInstanceId, 7, 0, BaseSeed),
               PinnedL0)
    /\ KnownIs(derive_wire_label_bytes(kec.memo, BaseCircuitId,
                                       BaseInstanceId, 7, 1, BaseSeed),
               PinnedL1)
    /\ KnownIs(compute_row_key_bytes(kec.memo, BaseCircuitId, BaseInstanceId,
                                     9, 1, 0, PinnedL0, PinnedL1),
               PinnedRowKey)
    /\ KnownIs(expand_pad_bytes(kec.memo, PinnedRowKey), PinnedPad)
    /\ KnownIs(Then(garble_circuit_bytes(kec.memo, BaseSeed,
                                         WholeCircuitLayout),
                    LAMBDA leaves : incremental_root_bytes(kec.memo, leaves)),
               PinnedRoot)

\* Both tests ran to their end: every digest they ask for is in the table,
\* and the three gate leaves were garbled.
C21_Witness ==
  /\ kec.stage = "idle"
  /\ ParityTests(kec.memo).ok
  /\ Len(ParityTests(kec.memo).val.circuit.leaves) = 3
  /\ ParityTests(kec.memo).val.vectors.l0 = PinnedL0
  /\ ParityTests(kec.memo).val.circuit.root = PinnedRoot

\* ------------------------------------------------------------------------
\* evaluate_garbled_circuit gate by gate (evaluation.rs), next to the
\* layout builder
\* ------------------------------------------------------------------------

\* What is done to the honest material before it is handed to the evaluator.
EvalTampers ==
  {"none", "drop_first_hint", "drop_last_hint", "foreign_first_hint",
   "foreign_last_hint", "short_leaves", "long_leaves"}

\* The hints with one removed, or with the input labels of one replaced by
\* those of another NOT gate.
TamperedHints(not_hints, tamper) ==
  LET n == Len(not_hints)
      Without(k) == [j \in 1..(n - 1) |->
                       IF j < k THEN not_hints[j] ELSE not_hints[j + 1]]
      Foreign(k, other) ==
        [not_hints EXCEPT ![k].in_label0 = not_hints[other].in_label0,
                          ![k].in_label1 = not_hints[other].in_label1]
  IN IF tamper = "drop_first_hint" THEN Without(1)
     ELSE IF tamper = "drop_last_hint" THEN Without(n)
     ELSE IF tamper = "foreign_first_hint" THEN Foreign(1, n)
     ELSE IF tamper = "foreign_last_hint" THEN Foreign(n, 1)
     ELSE not_hints

\* The leaves with the last one removed or repeated.
TamperedLeaves(leaves, tamper) ==
  IF tamper = "short_leaves" THEN SubSeq(leaves, 1, Len(leaves) - 1)
  ELSE IF tamper = "long_leaves" THEN Append(leaves, leaves[Len(leaves)])
  ELSE leaves

\* The arguments of one call: the material the garbler derives for instance
\* inst, bit width w and value x, Bob's labels for the value y, tampered.
EvalRequest(inst, w, x, y, tamper) ==
  LET Request(layout, seed) ==
        LET offers == derive_bob_label_offers(seed, layout.circuit_id, inst, w)
            y_bits == u64_to_bits_le(y, w)
        IN [layout |-> layout,
            leaves |-> Collect(TamperedLeaves(
                         Collect(garble_circuit(seed, layout)), tamper)),
            alice_input_labels |->
              Collect(derive_alice_input_labels(seed, layout.circuit_id, inst,
                                                w, x)),
            bob_input_labels |->
              Collect([k \in 1..w |->
                         IF y_bits[k] = 0 THEN offers[k][1]
                         ELSE offers[k][2]]),
            not_hints |->
              Collect(TamperedHints(
                        Collect(derive_not_gate_hints(seed, layout)), tamper)),
            output_wire |->
              millionaires_gt_output_wire(layout.gates, w).wire]
  IN Request(CircuitLayout(FixtureCircuitId, inst,
                           build_millionaires_layout(w)),
             GateSeed(inst))

\* vec![None; max_wire + 1] with the labels of Alice's and Bob's input wires
\* filled in.
InitialWireLabels(gates, alice_input_labels, bob_input_labels) ==
  LET bit_width == Len(alice_input_labels)
      max_wire == MaxWireFrom(gates, 1,
                    (IF 2 * bit_width = 0 THEN 0 ELSE 2 * bit_width - 1)
                      % (U16Max + 1))
  IN [wid \in 0..max_wire |->
        IF wid < bit_width THEN Some16(alice_input_labels[wid + 1])
        ELSE IF wid < 2 * bit_width
        THEN Some16(bob_input_labels[wid - bit_width + 1])
        ELSE None16]

\* The label of the output wire after the gate loop.
OutputLabel(wire_labels, output_wire) ==
  IF output_wire >= Cardinality(DOMAIN wire_labels)
  THEN ErrLabel("output wire is out of range")
  ELSE IF wire_labels[output_wire] = None16
  THEN ErrLabel("missing output wire label")
  ELSE OkLabel(Unwrap16(wire_labels[output_wire]))

\* The call up to its gate loop: the two count checks, then the label table.
EvalStart(inst, w, x, y, tamper) ==
  /\ ev.stage = "idle"
  /\ \E req \in {EvalRequest(inst, w, x, y, tamper)} :
       ev' =
         IF ~LeafCountMatches(req.leaves, req.layout.gates)
         THEN [stage |-> "done", req |-> req, tamper |-> tamper, x |-> x,
               y |-> y, gate_idx |-> 0, wire_labels |-> <<>>,
               result |-> ErrLabel("leaves count does not match gate count")]
         ELSE IF Len(req.bob_input_labels) # Len(req.alice_input_labels)
         THEN [stage |-> "done", req |-> req, tamper |-> tamper, x |-> x,
               y |-> y, gate_idx |-> 0, wire_labels |-> <<>>,
               result |-> ErrLabel("bob input label count does not match alice count")]
         ELSE [stage |-> "gates", req |-> req, tamper |-> tamper, x |-> x,
               y |-> y, gate_idx |-> 0,
               wire_labels |->
                 InitialWireLabels(req.layout.gates, req.alice_input_labels,
                                   req.bob_input_labels),
               result |-> ErrLabel("")]
  /\ UNCHANGED <<config, anchors, bundle, x_value, evalOut, y_value,
                 commitments, openings, gate, ih, mk, dispute, lay, garb, kec>>

\* One iteration of the gate loop: the gate's output label is stored, or the
\* call returns the error.
EvalStep ==
  /\ ev.stage = "gates"
  /\ ev.gate_idx < Len(ev.req.layout.gates)
  /\ \E r \in {EvalGate(ev.req.layout, ev.req.leaves, ev.req.not_hints,
                        ev.wire_labels, ev.gate_idx)} :
       ev' = IF ~r.ok
             THEN [ev EXCEPT !.stage = "done", !.result = r]
             ELSE [ev EXCEPT
                     !.wire_labels[ev.req.layout.gates[ev.gate_idx + 1].wire_c]
                        = Some16(r.label),
                     !.gate_idx = @ + 1]
  /\ UNCHANGED <<config, anchors, bundle, x_value, evalOut, y_value,
                 commitments, openings, gate, ih, mk, dispute, lay, garb, kec>>

\* After the last gate: the label of the output wire is returned.
EvalFinish ==
  /\ ev.stage = "gates"
  /\ ev.gate_idx = Len(ev.req.layout.gates)
  /\ ev' = [ev EXCEPT !.stage = "done",
                      !.result = OutputLabel(ev.wire_labels,
                                             ev.req.output_wire)]
  /\ UNCHANGED <<config, anchors, bundle, x_value, evalOut, y_value,
                 commitments, openings, gate, ih, mk, dispute, lay, garb, kec>>

\* The request of prepare-dispute for instance inst of the w-bit
\* comparator when the claimed-leaves file is the evaluator's leaves file.
DisputeRequestOfFile(inst, w, tamper, gate_index, allow, root_tag) ==
  LET Request(claimed) ==
        PrepareDisputeConfig(w, FixtureCircuitId, inst, GateSeed(inst),
          claimed, gate_index, allow,
          IF root_tag = "none" THEN NoFlag
          ELSE IF root_tag = "claimed" THEN Flag(incremental_root(claimed))
          ELSE Flag(Zero32))
  IN Request(Collect(TamperedLeaves(
       CanonicalLeaves(FixtureCircuitId, inst, GateSeed(inst), w), tamper)))

\* cmd_prepare_dispute run on the evaluator's leaves file.
PrepareDisputeOfFile(inst, w, tamper, gate_index, allow, root_tag) ==
  /\ dispute.stage = "idle"
  /\ \E cfg \in {DisputeRequestOfFile(inst, w, tamper, gate_index, allow,
                                      root_tag)} :
       dispute' = [stage |-> "first", request |-> cfg, root_tag |-> root_tag,
                   result |-> prepare_dispute_packet(cfg), earlier |-> <<>>]
  /\ UNCHANGED <<config, anchors, bundle, x_value, evalOut, y_value,
                 commitments, openings, gate, ih, mk, lay, garb, ev, kec>>

InitEval ==
  /\ config = SessionConfig(1, FixtureCircuitId, FixtureSeed)
  /\ SessionInit
  /\ gate = NoGate
  /\ ih = NoIH
  /\ mk = NoMK
  /\ dispute = NoDispute
  /\ lay = NoLayout
  /\ garb = NoGarble
  /\ ev = NoEvaluation
  /\ kec = NoKeccak

\* Either a layout is built, iteration by iteration, or a layout is built,
\* garbled and evaluated, or a dispute is prepared from a leaves file.
NextEval ==
  \/ \E bit_width \in LayoutWidths :
       /\ ev.stage = "idle"
       /\ dispute.stage = "idle"
       /\ LayoutStart(bit_width)
  \/ LayoutStep
  \/ \E w \in 1..MaxBitWidth, x \in 0..(Pow2(MaxBitWidth) - 1),
        y \in 0..(Pow2(MaxBitWidth) - 1), tamper \in EvalTampers :
       /\ lay.stage = "idle"
       /\ dispute.stage = "idle"
       /\ x < Pow2(w)
       /\ y < Pow2(w)
       /\ EvalStart(MaxGateIndex, w, x, y, tamper)
  \/ EvalStep
  \/ EvalFinish
  \/ \E w \in 1..MaxBitWidth,
        tamper \in {"none", "short_leaves", "long_leaves"},
        gate_index \in {NoFlag, Flag(0), Flag(3), Flag(5)},
        allow \in BOOLEAN, root_tag \in {"none", "claimed", "other"} :
       /\ lay.stage = "idle"
       /\ ev.stage = "idle"
       /\ PrepareDisputeOfFile(MaxGateIndex, w, tamper, gate_index, allow,
                               root_tag)

SpecEval == InitEval /\ [][NextEval]_vars

\* The wire carries a label when gate j of the latest iteration is reached:
\* it is an input wire, or a gate of an earlier iteration or an earlier gate
\* of this iteration writes it.
LayoutWireDefined(wire, j) ==
  \/ wire < 2 * lay.bit_width
  \/ lay.written # NoWire /\ 2 * lay.bit_width <= wire /\ wire <= lay.written
  \/ \E i \in 1..(j - 1) : lay.st.gates[i].wire_c = wire

\* The output wire of the gate before gate j of the latest iteration (the
\* last input wire when there is none).
LayoutPrevOut(j) ==
  IF j > 1 THEN lay.st.gates[j - 1].wire_c
  ELSE IF lay.written = NoWire THEN 2 * lay.bit_width - 1
  ELSE lay.written

\* The wire is an input wire of the evaluated layout or the output wire of
\* one of its gates before position k (from 1).
EvalWireDefined(wire, k) ==
  \/ wire < 2 * Len(ev.req.alice_input_labels)
  \/ \E i \in 1..(k - 1) : ev.req.layout.gates[i].wire_c = wire

\* C22: in the layout built by build_millionaires_layout(w) the input wires
\* of every gate (wire_a, and wire_b of an AND or XOR gate) are input wires
\* (< 2w) or output wires of strictly earlier gates, the output wires being
\* allocated one after the other from 2w; and evaluate_garbled_circuit on
\* honest material with w labels of Alice and w of Bob finds a label on
\* every wire a gate reads and never returns a missing-wire-label error.
C22_GatesInTopologicalOrder ==
  /\ lay.stage = "building" =>
       \A j \in 1..Len(lay.st.gates) :
         /\ LayoutWireDefined(lay.st.gates[j].wire_a, j)
         /\ lay.st.gates[j].gate_type \in {And, Xor} =>
              LayoutWireDefined(lay.st.gates[j].wire_b, j)
         /\ lay.st.gates[j].wire_c =
              IF LayoutPrevOut(j) >= U16Max THEN U16Max
              ELSE LayoutPrevOut(j) + 1
  /\ (ev.stage \in {"gates", "done"} /\ ev.tamper = "none") =>
       /\ \A k \in 1..Len(ev.req.layout.gates) :
            /\ EvalWireDefined(ev.req.layout.gates[k].wire_a, k)
            /\ ev.req.layout.gates[k].gate_type \in {And, Xor} =>
                 EvalWireDefined(ev.req.layout.gates[k].wire_b, k)
       /\ (ev.stage = "gates" /\ ev.gate_idx < Len(ev.req.layout.gates)) =>
            /\ ev.wire_labels[ev.req.layout.gates[ev.gate_idx + 1].wire_a]
                 # None16
            /\ ev.req.layout.gates[ev.gate_idx + 1].gate_type \in {And, Xor} =>
                 ev.wire_labels[ev.req.layout.gates[ev.gate_idx + 1].wire_b]
                   # None16
       /\ ev.stage = "done" =>
            /\ ev.result.err \notin {"missing wire label for wireA",
                                     "missing wire label for wireB",
                                     "missing output wire label"}
            /\ ev.result =
                 evaluate_garbled_circuit(ev.req.layout, ev.req.leaves,
                   ev.req.alice_input_labels, ev.req.bob_input_labels,
                   ev.req.not_hints, ev.req.output_wire)

\* An honest evaluation of a comparator of more than one bit went through
\* every gate, the gates that read the accumulators included, and returned
\* a label.
C22_Witness ==
  /\ ev.stage = "done"
  /\ ev.tamper = "none"
  /\ Len(ev.req.alice_input_labels) >= 2
  /\ ev.gate_idx = Len(ev.req.layout.gates)
  /\ ev.gate_idx >= 13
  /\ ev.result.ok


\* ------------------------------------------------------------------------
\* The output wire of the comparator
\* ------------------------------------------------------------------------

\* The layout builder has left its loop.
LayoutBuilt == lay.stage = "building" /\ lay.bit = 0 - 1

\* C23: for every bit width w the builder accepts, the wire that
\* millionaires_gt_output_wire returns for the built layout is the final
\* greater-than accumulator: for w = 1 the output of the last gate, the
\* single a AND (NOT b); for w >= 2 the output of the penultimate gate,
\* the last XOR of gt' = gt OR (eq AND gt_i), and not the wire of the
\* final eq' gate.
C23_GtOutputWire ==
  LayoutBuilt =>
    LET gates == lay.st.gates
        n == Len(gates)
        out == millionaires_gt_output_wire(gates, lay.bit_width)
    IN /\ out.ok
       /\ out.wire = lay.st.gt_acc
       /\ lay.bit_width = 1 =>
            /\ lay.first = 0 /\ n = 4
            /\ gates[n] = GateDesc(And, 0, gates[n - 1].wire_c,
                                   out.wire)
            /\ gates[n - 1] = GateDesc(Not, 1, 0, gates[n - 1].wire_c)
       /\ lay.bit_width >= 2 =>
            /\ out.wire = gates[n - 1].wire_c
            /\ gates[n - 1].gate_type = Xor
            /\ gates[n].gate_type = And
            /\ gates[n].wire_c = lay.st.eq_acc
            /\ out.wire # lay.st.eq_acc


\* ------------------------------------------------------------------------
\* The shape of an IH proof
\* ------------------------------------------------------------------------

\* S_k, the chain state after the blocks 0 .. k-1 of the chain: S_0 is
\* the zero state and S_k = keccak256(S_{k-1} || B_{k-1}).
RECURSIVE ChainStateAfter(_, _)
ChainStateAfter(chain, k) ==
  IF k = 0 THEN Zero32
  ELSE inc_hash(ChainStateAfter(chain, k - 1), chain[k])

\* C24: the proof generated for position i of an n-block chain is empty
\* when n = 1; otherwise it has exactly n - i elements, the first being
\* the chain state after the blocks 0 .. i-1 (the zero state for i = 0)
\* and the others the block hashes i+1 .. n-1 in order.
C24_IHProofShape ==
  (ih.stage = "proved" /\ ih.tamper = "none") =>
    LET n == Len(ih.chain)
        i == ih.index
    IN /\ n = 1 => ih.proof = <<>>
       /\ n > 1 =>
            /\ Len(ih.proof) = n - i
            /\ ih.proof[1] = ChainStateAfter(ih.chain, i)
            /\ i = 0 => ih.proof[1] = Zero32
            /\ \A j \in 2..(n - i) : ih.proof[j] = ih.chain[i + j]

\* A proof for a middle block: a folded prefix state and one later block.
C24_Witness ==
  /\ ih.stage = "proved"
  /\ ih.tamper = "none"
  /\ Len(ih.chain) = 3
  /\ ih.index = 1
  /\ ih.proof = <<inc_hash(Zero32, ih.chain[1]), ih.chain[3]>>
  /\ ih.proof[1] # Zero32


\* ------------------------------------------------------------------------
\* NOT hints during evaluation
\* ------------------------------------------------------------------------

\* The hints of the call that carry the gate index g.
HintsOfGate(g) ==
  {ev.req.not_hints[j] : j \in {i \in 1..Len(ev.req.not_hints) :
                                  ev.req.not_hints[i].gate_index = g}}

\* The NOT gate at position g has been evaluated: a hint carries its
\* index, the label of its input wire is one of the hint's two input
\* labels and its output wire holds the output label the hint pairs with it.
NotGateFollowedHint(g) ==
  LET gate_desc == ev.req.layout.gates[g + 1]
      label_a == ev.wire_labels[gate_desc.wire_a]
      label_c == ev.wire_labels[gate_desc.wire_c]
  IN /\ HintsOfGate(g) # {}
     /\ label_a # None16
     /\ \A h \in HintsOfGate(g) :
          /\ Unwrap16(label_a) \in {h.in_label0, h.in_label1}
          /\ label_c = Some16(IF Unwrap16(label_a) = h.in_label0
                              THEN h.out_if_in0 ELSE h.out_if_in1)

\* The call has returned an error, and no label, at the NOT gate g.
FailedAtNotGate(g, msg) ==
  /\ ~ev.result.ok
  /\ ev.result = ErrLabel(msg)
  /\ ev.gate_idx = g
  /\ g < Len(ev.req.layout.gates)
  /\ ev.req.layout.gates[g + 1].gate_type = Not

\* C25: evaluate_garbled_circuit returns an error and no output label
\* when a NOT gate has no hint with the gate's index, or when the label on
\* the NOT gate's input wire is neither in_label0 nor in_label1 of the
\* hint; a NOT gate that is passed has written out_if_in0 for in_label0
\* and out_if_in1 for in_label1.
C25_NotHints ==
  ev.stage \in {"gates", "done"} =>
    LET gates == ev.req.layout.gates
        NotGates == {g \in 0..(Len(gates) - 1) : gates[g + 1].gate_type = Not}
    IN /\ \A g \in NotGates : g < ev.gate_idx => NotGateFollowedHint(g)
       /\ ev.stage = "done" =>
            /\ ev.result = evaluate_garbled_circuit(ev.req.layout,
                             ev.req.leaves, ev.req.alice_input_labels,
                             ev.req.bob_input_labels, ev.req.not_hints,
                             ev.req.output_wire)
            /\ ev.result.ok => ev.gate_idx = Len(gates)
            /\ (\E g \in NotGates : HintsOfGate(g) = {}) =>
                 ~ev.result.ok /\ ev.result.label = Zero16
            /\ ev.tamper \in {"drop_first_hint", "drop_last_hint"} =>
                 \E g \in NotGates :
                   /\ HintsOfGate(g) = {}
                   /\ FailedAtNotGate(g, "missing NOT hint")
            /\ ev.tamper \in {"foreign_first_hint", "foreign_last_hint"} =>
                 \E g \in NotGates :
                   /\ FailedAtNotGate(g, "NOT hint mismatch")
                   /\ \E h \in HintsOfGate(g) :
                        Unwrap16(ev.wire_labels[gates[g + 1].wire_a])
                          \notin {h.in_label0, h.in_label1}

\* The hint of the last NOT gate names the input labels of another gate:
\* the NOT gates before it were passed and the call failed at the last.
C25_Witness ==
  /\ ev.stage = "done"
  /\ ev.tamper = "foreign_last_hint"
  /\ Len(ev.req.layout.gates) > 4
  /\ FailedAtNotGate(6, "NOT hint mismatch")
  /\ NotGateFollowedHint(1)
  /\ NotGateFollowedHint(5)
  /\ ev.result.label = Zero16


\* ------------------------------------------------------------------------
\* The leaf count
\* ------------------------------------------------------------------------

\* C26: when the number of claimed leaves differs from the gate count of
\* the comparator layout of the configured bit width, prepare_dispute_packet
\* returns the leaf-count error whatever the gate index, the override and
\* the expected root are, with no leaf recomputed and no proof built; and
\* evaluate_garbled_circuit returns its leaf-count error, before any gate
\* is evaluated, when the leaf count differs from the gate count.
C26_LeafCountChecked ==
  /\ dispute.stage = "first" =>
       LET gates == build_millionaires_layout(dispute.request.bit_width)
       IN (Len(dispute.request.claimed_leaves) # Len(gates)) =>
            dispute.result = [ok |-> FALSE, err |-> "leaf_count"]
  /\ (ev.stage # "idle" /\ Len(ev.req.leaves) # Len(ev.req.layout.gates)) =>
         /\ ev.stage = "done"
         /\ ev.result = ErrLabel("leaves count does not match gate count")
         /\ ev.gate_idx = 0
         /\ ev.wire_labels = <<>>
         /\ ev.result = evaluate_garbled_circuit(ev.req.layout,
                          ev.req.leaves, ev.req.alice_input_labels,
                          ev.req.bob_input_labels, ev.req.not_hints,
                          ev.req.output_wire)

\* A dispute was asked for with one leaf too many, an out-of-range gate
\* index, the override and a wrong expected root: the leaf count is the
\* error returned.
C26_Witness ==
  /\ dispute.stage = "first"
  /\ Len(dispute.request.claimed_leaves)
       = Len(build_millionaires_layout(dispute.request.bit_width)) + 1
  /\ dispute.request.gate_index = Flag(5)
  /\ dispute.request.allow_false_challenge
  /\ dispute.root_tag = "other"
  /\ dispute.result = [ok |-> FALSE, err |-> "leaf_count"]


\* ------------------------------------------------------------------------
\* The expected root and the gate index of a dispute request
\* ------------------------------------------------------------------------

\* The IH root over the claimed leaves of the request.
ClaimedRoot(cfg) ==
  ChainStateAfter([k \in 1..Len(cfg.claimed_leaves) |->
                     gc_block_hash(k - 1, cfg.claimed_leaves[k])],
                  Len(cfg.claimed_leaves))

\* The request passes every check made before the root is compared: the
\* leaf count, a gate to dispute, its range, and the false-challenge test.
PassesSelection(cfg, canonical) ==
  /\ Len(cfg.claimed_leaves) = Len(canonical)
  /\ IF cfg.gate_index = NoFlag
     THEN Differing(cfg.claimed_leaves, canonical) # {}
     ELSE /\ FlagValue(cfg.gate_index) < Len(canonical)
          /\ \/ cfg.allow_false_challenge
             \/ FlagValue(cfg.gate_index)
                  \in Differing(cfg.claimed_leaves, canonical)

\* C27: when an expected IH root is supplied and the IH root recomputed
\* over the claimed leaves differs from it, the call returns an error and
\* no packet (the root error when every earlier check passes); a packet
\* returned with an expected root supplied has root_gc equal to it.
C27_ExpectedRootChecked ==
  LET Check(req, res, canonical, root) ==
        /\ (/\ req.expected_root_gc # NoFlag
            /\ root # FlagValue(req.expected_root_gc)) =>
             /\ ~res.ok
             /\ DOMAIN res = {"ok", "err"}
             /\ PassesSelection(req, canonical) => res.err = "root_gc"
        /\ (req.expected_root_gc # NoFlag /\ res.ok) =>
             /\ res.root_gc = FlagValue(req.expected_root_gc)
             /\ res.root_gc = root
        /\ res.err = "root_gc" =>
             /\ req.expected_root_gc # NoFlag
             /\ root # FlagValue(req.expected_root_gc)
  IN dispute.stage # "idle" =>
       Check(dispute.request, dispute.result,
             RequestCanonical(dispute.request), ClaimedRoot(dispute.request))

\* A file with a differing leaf was disputed against another expected
\* root and the root error was returned.
C27_Witness ==
  /\ dispute.stage # "idle"
  /\ dispute.root_tag = "other"
  /\ dispute.request.gate_index = NoFlag
  /\ Differing(dispute.request.claimed_leaves,
               RequestCanonical(dispute.request)) = {2}
  /\ ClaimedRoot(dispute.request)
       # FlagValue(dispute.request.expected_root_gc)
  /\ dispute.result = [ok |-> FALSE, err |-> "root_gc"]

MaxDerivations == 2

\* The 32-byte values the derivations are called with: zeros, and a value
\* whose last 16 bytes are zero.
DerivationWords == {Fill(32, 0), Fill(16, 5) \o Fill(16, 0)}

\* The 16-byte labels the derivations are called with.
DerivationLabels == {Fill(16, 0), Fill(16, 5)}

\* The gates and the 71-byte leaves the derivations are called with.
DerivationGates == {GateDesc(And, 0, 1, 2), GateDesc(Not, 1, 0, 3)}

DerivationLeaves ==
  {encode_leaf_bytes(g, [k \in 1..4 |-> Fill(16, 0)]) : g \in DerivationGates}

\* One keccak256 call of a derivation: the first preimage the derivation
\* hands to keccak256 is logged with the derivation's kind.
Hashed(kind, call) ==
  /\ kec.stage = "log"
  /\ Len(kec.calls) < MaxDerivations
  /\ ~call.ok
  /\ kec' = [kec EXCEPT
               !.calls = Append(@, [kind |-> kind, preimage |-> call.need])]
  /\ UNCHANGED <<config, anchors, bundle, x_value, evalOut, y_value,
                 commitments, openings, gate, ih, mk, dispute, lay, garb, ev>>

HashFlipBit(instance_id, wire_id, seed) ==
  Hashed("P", derive_wire_flip_bit_bytes(<<>>, BaseCircuitId, instance_id,
                                         wire_id, seed))

HashWireLabel(wire_id, semantic_bit, seed) ==
  Hashed("L", derive_wire_label_bytes(<<>>, BaseCircuitId, 0, wire_id,
                                      semantic_bit, seed))

HashRowKey(gate_index, perm_a, label_a, label_b) ==
  Hashed("K", compute_row_key_bytes(<<>>, BaseCircuitId, 0, gate_index,
                                    perm_a, 1 - perm_a, label_a, label_b))

HashPad(row_key) == Hashed("PAD", expand_pad_bytes(<<>>, row_key))

HashInstanceSeed(master_seed, instance_id) ==
  Hashed("SEED", derive_instance_seed_bytes(<<>>, master_seed, BaseCircuitId,
                                            instance_id))

HashGateBlock(gate_index, leaf) ==
  Hashed("gate_block", gc_block_hash_bytes(<<>>, gate_index, leaf))

HashLayoutLeaf(gate_index, gate_desc) ==
  Hashed("layout_leaf", layout_leaf_hash_bytes(<<>>, gate_index, gate_desc))

HashSeedCommitment(seed) == Hashed("com_seed", com_seed_bytes(<<>>, seed))

HashOutputAnchor(label16) ==
  Hashed("output_anchor", hash_output_label_bytes(<<>>, label16))

HashChainStep(prev, block_hash) ==
  Hashed("ih_step", inc_hash_bytes(<<>>, prev, block_hash))

HashMerkleNode(a, b) ==
  Hashed("merkle_node", commutative_node_hash_bytes(<<>>, a, b))

InitDerivations ==
  /\ config = SessionConfig(1, FixtureCircuitId, FixtureSeed)
  /\ SessionInit
  /\ gate = NoGate
  /\ ih = NoIH
  /\ mk = NoMK
  /\ dispute = NoDispute
  /\ lay = NoLayout
  /\ garb = NoGarble
  /\ ev = NoEvaluation
  /\ kec = [stage |-> "log", calls |-> <<>>]

NextDerivations ==
  \/ \E instance_id \in 0..1, seed \in DerivationWords :
       HashFlipBit(instance_id, 0, seed)
  \/ \E wire_id \in 0..1, semantic_bit \in 0..1 :
       HashWireLabel(wire_id, semantic_bit, Fill(32, 0))
  \/ \E gate_index \in 0..1, perm_a \in 0..1, label_b \in DerivationLabels :
       HashRowKey(gate_index, perm_a, Fill(16, 5), label_b)
  \/ \E row_key \in DerivationWords : HashPad(row_key)
  \/ \E master_seed \in DerivationWords, instance_id \in 0..1 :
       HashInstanceSeed(master_seed, instance_id)
  \/ \E gate_index \in 0..1, leaf \in DerivationLeaves :
       HashGateBlock(gate_index, leaf)
  \/ \E gate_index \in 0..1, gate_desc \in DerivationGates :
       HashLayoutLeaf(gate_index, gate_desc)
  \/ \E seed \in DerivationWords : HashSeedCommitment(seed)
  \/ \E label16 \in DerivationLabels : HashOutputAnchor(label16)
  \/ \E prev \in DerivationWords, block_hash \in DerivationWords :
       HashChainStep(prev, block_hash)
  \/ \E a \in DerivationWords, b \in DerivationWords : HashMerkleNode(a, b)

SpecDerivations == InitDerivations /\ [][NextDerivations]_vars

\* C29: no two derivations of different kinds (P, L, K, PAD, SEED,
\* gate-block hash, layout-leaf hash, seed commitment, output-anchor hash,
\* IH chain step, Merkle node hash) hand the same byte string to keccak256.
C29_DomainsSeparated ==
  kec.stage = "log" =>
    \A i \in 1..Len(kec.calls), j \in 1..Len(kec.calls) :
      kec.calls[i].kind # kec.calls[j].kind =>
        kec.calls[i].preimage # kec.calls[j].preimage


\* ------------------------------------------------------------------------
\* The Merkle root and the number of leaves
\* ------------------------------------------------------------------------

\* C30: the root of a list of odd length >= 3 is also the root of the
\* list with a copy of its last hash appended; the root of the empty list
\* is the zero value and the root of a one-element list is its element.
C30_RootIgnoresLeafCount ==
  mk.stage = "rooted" =>
    /\ mk.hashes = <<>> => mk.root = Zero32
    /\ Len(mk.hashes) = 1 => mk.root = mk.hashes[1]
    /\ \A k \in 1..Len(mk.earlier) :
         (Len(mk.earlier[k].hashes) >= 3 /\ Len(mk.earlier[k].hashes) % 2 = 1)
           => /\ Len(mk.hashes) = Len(mk.earlier[k].hashes) + 1
              /\ mk.hashes[Len(mk.hashes)] = mk.hashes[Len(mk.hashes) - 1]
              /\ mk.root = mk.earlier[k].root

\* Three different leaves and the four leaves with the last repeated
\* have the same root, which is neither zero nor a leaf.
C30_Witness ==
  /\ mk.stage = "rooted"
  /\ Len(mk.earlier) = 1
  /\ Len(mk.earlier[1].hashes) = 3
  /\ mk.earlier[1].hashes[1] # mk.earlier[1].hashes[2]
  /\ mk.hashes = Append(mk.earlier[1].hashes, mk.earlier[1].hashes[3])
  /\ mk.root = mk.earlier[1].root
  /\ mk.root # Zero32
  /\ \A k \in 1..4 : mk.root # mk.hashes[k]

====
